---- MODULE Spec2Model ----
(***************************************************************************)
(* Episode memory of the daily briefing pipeline: the pure rolling-window  *)
(* upsert (episodeMemory.js, addEpisodeToMemory), the GitHub contents      *)
(* backend it is persisted to (getEpisodeMemory / commitEpisodeMemory),    *)
(* and the orchestrator that reads, filters and writes it (index.js, run   *)
(* and runWithRetry).                                                      *)
(***************************************************************************)
EXTENDS Integers, Sequences, FiniteSets, TLC

(***************************************************************************)
(* Program constants and model bounds                                      *)
(***************************************************************************)

\* episodeMemory.js: const MAX_EPISODES = 14
MAX_EPISODES == 14

\* Calendar days 1..NumDates stand for the YYYY-MM-DD strings; the order of
\* the integers is the order of the dates.
NumDates == 15

\* Number of addEpisodeToMemory calls that may carry an arbitrary record
\* (any date, any summary); the other calls carry the next calendar day.
MaxOutOfOrder == 1

\* Number of awaited pipeline steps (other than the memory read and write)
\* that may reject, over all invocations.
MaxFailures == 1

\* Number of midnights the clock may pass.
MaxTicks == 1

\* Token and character counts of a usage record run from 0 to MaxTokens.
MaxTokens == 1

\* At most MaxRecords calls are made on a CostTracker.
MaxRecords == 3

Dates == 1..NumDates

Summaries == {"s1", "s2"}

Min(a, b) == IF a <= b THEN a ELSE b

Max(a, b) == IF a >= b THEN a ELSE b

\* An EpisodeRecord as the pure function sees it: the key and a payload.
Rec(d, s) == [date |-> d, summary |-> s]

NoRecord == [date |-> 0, summary |-> "none"]

\* <<Rec(n), Rec(n-1), ..., Rec(1)>>: the history left by n daily runs.
Ramp(n) == [i \in 1..n |-> Rec(n + 1 - i, "s1")]

EmptyMemory == [episodes |-> <<>>]

\* A parsed memory file that has no "episodes" key at all.
NoEpisodesKey == [version |-> 1]

(***************************************************************************)
(* episodeMemory.js, addEpisodeToMemory and its three steps                *)
(***************************************************************************)

\* memoryData.episodes || []
EpisodesOf(memoryData) ==
  IF "episodes" \in DOMAIN memoryData THEN memoryData.episodes ELSE <<>>

FilterKeepAll(episodes, newRecord) == episodes

FilterOutSameRecord(episodes, newRecord) ==
  SelectSeq(episodes, LAMBDA ep : ep # newRecord)

\* .filter(ep => ep.date !== newRecord.date)
FilterOutDate(episodes, newRecord) ==
  SelectSeq(episodes, LAMBDA ep : ep.date # newRecord.date)

PrependAtEnd(newRecord, filtered) == filtered \o <<newRecord>>

\* [newRecord, ...filtered]
Prepend(newRecord, filtered) == <<newRecord>> \o filtered

TrimOffByOne(updated) == SubSeq(updated, 1, Min(Len(updated), MAX_EPISODES + 1))

TrimKeepTail(updated) ==
  SubSeq(updated, Max(1, Len(updated) - MAX_EPISODES + 1), Len(updated))

\* .slice(0, MAX_EPISODES)
Trim(updated) == SubSeq(updated, 1, Min(Len(updated), MAX_EPISODES))

addEpisodeToMemory(memoryData, newRecord) ==
  LET filtered == FilterOutDate(EpisodesOf(memoryData), newRecord)
      updated  == Trim(Prepend(newRecord, filtered))
  IN  [episodes |-> updated]

\* Input memories for the function taken alone: two concatenated histories,
\* which covers over-long inputs, repeated dates and unordered dates, and a
\* value without an "episodes" key.
AnyMemories ==
  { [episodes |-> Ramp(b) \o Ramp(d)] : b \in 0..NumDates, d \in 0..NumDates }
    \cup {NoEpisodesKey}

(***************************************************************************)
(* State                                                                   *)
(***************************************************************************)

VARIABLES
  memory,      \* the current EpisodeMemory value (result of the last call)
  memoryData,  \* the argument memoryData of the last addEpisodeToMemory call
  newRecord,   \* the argument newRecord of the last call, NoRecord before it
  lastUpsert,  \* date -> number of the last call that upserted it, 0 if none
  calls,       \* number of addEpisodeToMemory calls so far
  maxDate,     \* the latest calendar day upserted so far
  outOfOrder   \* number of calls that carried an arbitrary record

memVars == <<memory, memoryData, newRecord, lastUpsert, calls, maxDate, outOfOrder>>

VARIABLES
  file,        \* gh-pages: the episode memory file, NoFile or [content, sha]
  feed,        \* gh-pages: the dates of the published episodes
  today,       \* the calendar day of the wall clock
  ticks,       \* number of midnights passed
  failures,    \* number of pipeline steps that rejected
  config       \* [dryRun, articlesEnabled]: the options of the invocations

envVars == <<file, feed, today, ticks, failures, config>>

VARIABLES
  pc,                 \* position of each invocation of runWithRetry
  attempt,            \* runWithRetry: the loop variable attempt
  episodeMemoryData,  \* run: let episodeMemoryData
  episodeMemorySha,   \* run: let episodeMemorySha
  episodeMemoryForPrompt, \* run: let episodeMemoryForPrompt, the digest
  articlesData,       \* run: articlesData.items, as a sequence of titles
  dateStr,            \* run: dateStr, 0 until computed
  summary,            \* run: summary of synthesizeScript, "none" until known
  keyTopics           \* run: keyTopics of extractKeyTopics, <<>> until known

runVars == <<pc, attempt, episodeMemoryData, episodeMemorySha,
             episodeMemoryForPrompt, articlesData,
             dateStr, summary, keyTopics>>

VARIABLES
  readResult,   \* what getEpisodeMemory did in this attempt
  writeRequest, \* the body commitEpisodeMemory sent in this attempt
  writeResult,  \* the backend's answer to the write of the last attempt
  events,       \* the memory operations of this attempt, in order
  warnings,     \* the warnings this attempt logged
  reads,        \* number of memory reads of the invocation, all attempts
  writes        \* number of memory writes of the invocation, all attempts

obsVars == <<readResult, writeRequest, writeResult, events, warnings, reads, writes>>

VARIABLES
  contentCfg, \* fetchAdditionalSourcing: config.content, the switches
  season,   \* the event the wall clock falls into, if any
  aggPc,    \* position of the call of fetchAdditionalSourcing
  task,     \* the network calls of the source clients and how they went
  invoked,  \* the source clients the call has called
  bundle    \* what the call returned: { items, usage }

aggVars == <<contentCfg, season, aggPc, task, invoked, bundle>>

VARIABLES
  ledger,   \* costTracker.js: the CostTracker of a run and what was handed to it
  lookup    \* episodeMemory.js: a call of one of the lookups and its result

VARIABLES
  articlesCall, \* fetcher.js: a call of fetchArticles, its inputs and result
  journal       \* per title, the dates of the records that list it, newest first

artVars == <<articlesCall, journal>>

VARIABLES
  promises, \* fetchAdditionalSourcing: const promises = [], by client pushed
  results   \* fetchAdditionalSourcing: const results = {}, the slots written

slotVars == <<promises, results>>

vars == <<memVars, envVars, runVars, obsVars, aggVars, ledger, lookup, artVars, slotVars>>

(***************************************************************************)
(* The persistence backend: the GitHub contents API on branch gh-pages     *)
(***************************************************************************)

\* sha: null
Null == [null |-> TRUE]

NoFile == [exists |-> FALSE]

File(content) == [exists |-> TRUE, content |-> content]

\* The version token of a file is its git blob sha, a hash of its content.
Sha(content) == [blob |-> content]

\* What can go wrong with a request besides the answer the file decides:
\* an HTTP 5xx answer, or no answer at all (error.response undefined).
Faults == {"none", "http500", "network"}

\* The faults injected into the PUT.
PutFaults == {"none", "http500"}

FaultStatus(fault) == IF fault = "http500" THEN 500 ELSE 0

\* GET /contents/<memoryFile>?ref=gh-pages
BackendGet(f, fault) ==
  IF fault # "none" THEN [status |-> FaultStatus(fault)]
  ELSE IF ~f.exists THEN [status |-> 404]
  ELSE [status |-> 200, content |-> f.content, sha |-> Sha(f.content)]

BackendPutLastWriterWins(f, body, fault) ==
  IF fault # "none" THEN [status |-> FaultStatus(fault), file |-> f]
  ELSE [status |-> IF f.exists THEN 200 ELSE 201, file |-> File(body.content)]

BackendPutUpsert(f, body, fault) ==
  IF fault # "none" THEN [status |-> FaultStatus(fault), file |-> f]
  ELSE IF "sha" \in DOMAIN body /\ (~f.exists \/ body.sha # Sha(f.content))
    THEN [status |-> IF f.exists THEN 409 ELSE 422, file |-> f]
  ELSE [status |-> IF f.exists THEN 200 ELSE 201, file |-> File(body.content)]

\* PUT /contents/<memoryFile>: a create needs no sha, an update needs the
\* sha of the blob it replaces; 422 without it, 409 when it does not match.
BackendPut(f, body, fault) ==
  LET hasSha == "sha" \in DOMAIN body IN
  IF fault # "none" THEN [status |-> FaultStatus(fault), file |-> f]
  ELSE IF ~f.exists
    THEN IF hasSha THEN [status |-> 422, file |-> f]
         ELSE [status |-> 201, file |-> File(body.content)]
  ELSE IF ~hasSha THEN [status |-> 422, file |-> f]
  ELSE IF body.sha # Sha(f.content) THEN [status |-> 409, file |-> f]
  ELSE [status |-> 200, file |-> File(body.content)]

\* axios rejects on every status outside 2xx and when there is no response.
Rejected(status) == status < 200 \/ status >= 300

(***************************************************************************)
(* episodeMemory.js: getEpisodeMemory, commitEpisodeMemory, dedup lookup   *)
(***************************************************************************)

getEpisodeMemoryCatchAll(response) ==
  IF response.status = 200
    THEN [threw |-> FALSE, data |-> response.content, sha |-> response.sha]
    ELSE [threw |-> FALSE, data |-> EmptyMemory, sha |-> Null]

\* The value getEpisodeMemory returns, or the error it throws, for a response.
getEpisodeMemory(response) ==
  IF response.status = 200
    THEN [threw |-> FALSE, data |-> response.content, sha |-> response.sha]
  ELSE IF response.status = 404
    THEN [threw |-> FALSE, data |-> EmptyMemory, sha |-> Null]
  ELSE [threw |-> TRUE, error |-> response.status]

commitBodyReset(data, sha) ==
  IF sha # Null THEN [content |-> EmptyMemory, sha |-> sha] ELSE [content |-> data]

\* The request body of commitEpisodeMemory: ...(sha ? { sha } : {})
commitBody(data, sha) ==
  IF sha # Null THEN [content |-> data, sha |-> sha] ELSE [content |-> data]

NoRequest == [sent |-> FALSE]

NoAnswer == [done |-> FALSE]

Titles == {"Foo Bar", "  foo bar  "}

\* The titles the article feeds offer to a run.
FeedTitles == {"Foo Bar"}

\* title.toLowerCase().trim()
Normalize(title) ==
  CASE title = "Foo Bar"     -> "foo bar"
    [] title = "  foo bar  " -> "foo bar"
    [] OTHER                 -> title

RECURSIVE Flatten(_)
Flatten(seqs) == IF seqs = <<>> THEN <<>> ELSE Head(seqs) \o Flatten(Tail(seqs))

\* A wall clock: the instant, in hours since the UTC midnight that starts day
\* 0, and the UTC offset of the time zone of the process, in hours.
Clock(hour, offset) == [hour |-> hour, offset |-> offset]

\* The clock of a process in UTC at the midnight that starts the day.
UTCMidnight(day) == Clock(24 * day, 0)

\* The calendar day the clock shows: getDate() and the like are local.
LocalDay(now) == (now.hour + now.offset) \div 24

\* const cutoff = new Date(); cutoff.setDate(cutoff.getDate() - days);
\* cutoff.setHours(0, 0, 0, 0): the instant of the local midnight that starts
\* the local day `days` days back.
Cutoff(now, days) == 24 * (LocalDay(now) - days) - now.offset

\* new Date(ep.date), ep.date being YYYY-MM-DD: the UTC midnight of the date.
DateInstant(date) == 24 * date

\* getCoveredArticles(memoryData, days), now being the clock of the process
getCoveredArticles(data, days, now) ==
  LET relevant == SelectSeq(EpisodesOf(data),
                            LAMBDA ep : DateInstant(ep.date) >= Cutoff(now, days))
  IN  Flatten([i \in DOMAIN relevant |->
                 IF "articles" \in DOMAIN relevant[i] THEN relevant[i].articles
                 ELSE <<>>])

\* The digest of a memory without (recent) history: the empty string.
EmptyDigest == <<>>

\* formatMemoryForPrompt(memoryData, days), now being the clock of the
\* process: one line "- date: summary [Topics: ...]" per episode of the last
\* days, joined by newlines; the text is modelled as the sequence of its lines.
formatMemoryForPrompt(data, days, now) ==
  LET relevant == SelectSeq(EpisodesOf(data),
                            LAMBDA ep : DateInstant(ep.date) >= Cutoff(now, days))
  IN  IF EpisodesOf(data) = <<>> \/ relevant = <<>> THEN EmptyDigest
      ELSE [i \in DOMAIN relevant |->
              [date |-> relevant[i].date, summary |-> relevant[i].summary,
               topics |-> relevant[i].keyTopics]]

\* hasArticleBeenCovered(memoryData, articleTitle, days)
hasArticleBeenCovered(data, title, days, now) ==
  LET covered == getCoveredArticles(data, days, now)
  IN  \E i \in DOMAIN covered : Normalize(covered[i]) = Normalize(title)

\* No lookup is being made.
NoLookup == <<>>

\* A call of one of the three lookups of episodeMemory.js: the arguments,
\* the clock of the process, and what the call returned.
Lookup(data, title, days, now) ==
  [data |-> data, title |-> title, days |-> days, now |-> now,
   called |-> "none", result |-> Null]

\* The ages, in days before the local day of the call, of the records a
\* lookup meets: today's, and those around the 3-day and 7-day boundaries.
RecordAges == {0, 3, 4, 5, 7, 8}

\* The articles field of a record, as the sequence of the values the record
\* has for it: none (the field is absent), the empty list, or one title.
ArticleLists == {<<>>, << <<>> >>, << <<"Foo Bar">> >>}

\* A record of the memory file, with or without the articles of the day.
StoredRecord(d, articles) ==
  IF articles = <<>>
    THEN [date |-> d, summary |-> "s0", keyTopics |-> <<>>]
    ELSE [date |-> d, summary |-> "s0", keyTopics |-> <<>>, articles |-> articles[1]]

\* The local day of the lookups: the last modelled day.
LookupDay == NumDates

StoredRecords ==
  { [date |-> LookupDay - age, articles |-> a] : age \in RecordAges, a \in ArticleLists }

\* The memories a lookup reads: no episodes key, no episode, one record, or
\* two records of different dates, newest first.
LookupMemories ==
  {NoEpisodesKey, EmptyMemory}
    \cup { [episodes |-> <<StoredRecord(r.date, r.articles)>>] : r \in StoredRecords }
    \cup { [episodes |-> <<StoredRecord(p[1].date, p[1].articles),
                           StoredRecord(p[2].date, p[2].articles)>>] :
             p \in {x \in StoredRecords \X StoredRecords : x[2].date < x[1].date} }

\* The titles asked for: the stored title, a variant of it, another title.
LookupTitles == Titles \cup {"Baz"}

\* The look-backs asked for.
LookupDays == {3, 7}

\* The clocks of the process: early, midday and late on the local day, in a
\* time zone west of UTC, in UTC, and in one east of it.
LookupClocks ==
  { Clock(24 * LookupDay + h - offset, offset) : h \in {0, 12, 23}, offset \in {-8, 0, 9} }

(***************************************************************************)
(* index.js: run and runWithRetry                                          *)
(***************************************************************************)

\* Two invocations of the pipeline, free to overlap.
Procs == {1, 2}

\* The look-back of the digest: formatMemoryForPrompt(data, 7)
PromptWindowDays == 7

\* The look-back of fetchArticles: hasArticleBeenCovered(..., 30)
ArticleWindowDays == 30

Topics == {<<>>, <<"topic">>}

\* The summary synthesizeScript writes: each invocation's own text.
SummaryOf(p) == IF p = 1 THEN "s1" ELSE "s2"

\* The record of a past run: its own text, no articles, no topics.
PastRecord(d) == [date |-> d, summary |-> "s0", keyTopics |-> <<>>]

\* The memory file left by n earlier daily runs, on days 1..n.
History(n) == [episodes |-> [i \in 1..n |-> PastRecord(n + 1 - i)]]

\* Lengths of the history the invocations may start from.
HistoryLengths == {0, MAX_EPISODES}

\* The required variables process.env lacks: none, or the token.
MissingEnv == {{}, {"GITHUB_TOKEN"}}

\* How the backend answered a GET: the file, not-found, or another error.
AnswerOf(response) ==
  IF response.status = 200 THEN "ok"
  ELSE IF response.status = 404 THEN "notFound"
  ELSE "error"

NoRead == [threw |-> FALSE, answer |-> "none"]

(***************************************************************************)
(* fetcher.js: fetchAdditionalSourcing and its source clients              *)
(***************************************************************************)

\* The keys of the items object fetchAdditionalSourcing returns.
Categories == {"realEstate", "sports", "iran", "news", "surf", "olympics", "worldcup"}

\* An entry of config.content.sports.events: { type, enabled, onlyDuringEvent }
EventFlags == [enabled : BOOLEAN, onlyDuringEvent : BOOLEAN]

\* config.content: the enabled switch of each category, the two events, and
\* the teams of config.content.sports.teams that carry an rssFeedUrl (none)
\* and those whose league is none of nba, mlb, nfl (none); with them, whether
\* process.env.GOOGLE_API_KEY is set (it is).
Contents ==
  [realEstate : BOOLEAN, sports : BOOLEAN, internationalRelations : BOOLEAN,
   news : BOOLEAN, surfConditions : BOOLEAN,
   olympics : EventFlags, worldcup : EventFlags, teamsWithRSS : {{}},
   unknownLeagues : {{}}, apiKey : {TRUE}]

\* Nothing enabled.
NoContent ==
  [realEstate |-> FALSE, sports |-> FALSE, internationalRelations |-> FALSE,
   news |-> FALSE, surfConditions |-> FALSE,
   olympics |-> [enabled |-> FALSE, onlyDuringEvent |-> FALSE],
   worldcup |-> [enabled |-> FALSE, onlyDuringEvent |-> FALSE],
   teamsWithRSS |-> {}, unknownLeagues |-> {}, apiKey |-> TRUE]

\* What the wall clock falls into: the date ranges of areOlympicsActive and
\* isWorldCupActive do not overlap.
Seasons == {"none", "olympics", "worldcup"}

\* areOlympicsActive().active
areOlympicsActive(s) == s = "olympics"

\* isWorldCupActive().active
isWorldCupActive(s) == s = "worldcup"

\* config.content.sports.teams: two teams, without espnNewsId.
Teams == <<"Warriors", "Giants">>

\* The feeds of fetchRealEstateNews (its defaults).
RealEstateFeeds == <<"Zillow Research", "Redfin News">>

\* The feed of fetchIranNews.
IranFeeds == <<"Foreign Policy - Iran">>

\* config.content.news.feeds
NewsFeeds == <<"News Feed">>

\* The categories fetched feed by feed with fetchRSSFeed.
FeedCategories == {"realEstate", "iran", "news"}

\* Those whose items are then summarized with modelFlash.generateContent.
SummarizedCategories == {"realEstate", "news"}

FeedsOf(c) ==
  CASE c = "realEstate" -> RealEstateFeeds
    [] c = "iran"       -> IranFeeds
    [] c = "news"       -> NewsFeeds

\* The name of the summarizer call of a category: the source of its item.
SummaryCall(c) == IF c = "realEstate" THEN "Real Estate Analysis" ELSE "News Feeds"

Range(seq) == { seq[i] : i \in DOMAIN seq }

FeedNames == UNION { Range(FeedsOf(c)) : c \in FeedCategories }

\* fetchTeamRSSFeed: the sourceName of the feed of a team,
\* `${teamName} Fan Analysis`.
TeamRSSFeed(teamName) ==
  IF teamName = "Warriors" THEN "Warriors Fan Analysis" ELSE "Giants Fan Analysis"

\* fetchTeamRSSFeed: the generateContent call over the feed items of a team,
\* named by the title of the items made from its answer.
TeamRSSAnalysis(teamName) ==
  IF teamName = "Warriors" THEN "Warriors Fan Perspective" ELSE "Giants Fan Perspective"

TeamRSSFeeds == { TeamRSSFeed(teamName) : teamName \in Range(Teams) }

TeamRSSAnalyses == { TeamRSSAnalysis(teamName) : teamName \in Range(Teams) }

\* The network calls of one aggregation, each named by the source it asks.
CallNames ==
  FeedNames \cup Range(Teams) \cup {"Surfline"}
    \cup { SummaryCall(c) : c \in SummarizedCategories }
    \cup TeamRSSFeeds \cup TeamRSSAnalyses

\* The fetches of the sources, as opposed to the summarizer calls.
SourceFetches == FeedNames \cup Range(Teams) \cup {"Surfline"} \cup TeamRSSFeeds

\* Does the call carry a timeout? fetchRSSFeed: axios.get(url, { timeout:
\* 10000 }); fetchSportsGame: axios.get(url); fetchJson: https.get(url);
\* modelFlash.generateContent(prompt).
HasTimeout(name) == name \in FeedNames \cup TeamRSSFeeds

\* const modelFlash = genAI ? genAI.getGenerativeModel(...) : null, genAI
\* being null without GOOGLE_API_KEY: is modelFlash not null?
modelFlash == contentCfg.apiKey

Off == [st |-> "off"]

Queued == [st |-> "queued"]

Pending == [st |-> "pending"]

\* The call has settled: how it went and what its function returned.
Done(how, out) == [st |-> "done", how |-> how, out |-> out]

Item(title, text, source) == [title |-> title, summary |-> text, source |-> source]

\* response.usageMetadata.promptTokenCount of the generateContent call of a
\* client: every call has its own count, so that a sum names its terms.
PromptTokens(name) ==
  CASE name = "Real Estate Analysis"     -> 1
    [] name = "News Feeds"               -> 2
    [] name = "Warriors"                 -> 4
    [] name = "Giants"                   -> 8
    [] name = "Warriors Fan Perspective" -> 16
    [] name = "Giants Fan Perspective"   -> 32

\* response.usageMetadata.candidatesTokenCount of the same call.
CandidatesTokens(name) == 3 * PromptTokens(name)

\* usage ? { geminiFlash: { promptTokens: usage.promptTokenCount,
\* candidatesTokens: usage.candidatesTokenCount } } : null
Usage(name) ==
  [geminiFlash |-> [promptTokens |-> PromptTokens(name),
                    candidatesTokens |-> CandidatesTokens(name)]]

\* How a call can go: it is answered with data, or it fails (transport
\* error, bad payload, or the timeout where there is one).
Outcomes == {"ok", "error"}

\* $('item') of the document a feed answers with: an item without a title
\* and an item with one.
FeedRecords ==
  <<[title |-> "", description |-> "description"],
    [title |-> "Headline", description |-> "description"]>>

fetchRSSFeedKeepAll(sourceName, outcome) ==
  IF outcome = "ok"
    THEN [i \in DOMAIN FeedRecords |->
            Item(FeedRecords[i].title, FeedRecords[i].description, sourceName)]
    ELSE <<>>

\* fetchRSSFeed(url, sourceName, maxItems): the items of the feed that have
\* a title (if (title) items.push(...)), [] from its catch block.
fetchRSSFeed(sourceName, outcome) ==
  IF outcome = "ok"
    THEN LET titled == SelectSeq(FeedRecords, LAMBDA r : r.title # "")
         IN  [i \in DOMAIN titled |->
                Item(titled[i].title, titled[i].description, sourceName)]
    ELSE <<>>

\* `${teamName} Game: ${event.name}`, the item made without modelFlash
GameTitle(teamName) ==
  IF teamName = "Warriors" THEN "Warriors Game: X" ELSE "Giants Game: Y"

RecapTitle(teamName) ==
  IF teamName = "Warriors" THEN "Warriors Recap: X" ELSE "Giants Recap: Y"

\* fetchSportsGame(league, teamName, espnApiName): if (!leagueInfo) {
\* console.error(`Unknown league`); return { items: [], usage: null } }, the
\* recap of the game, or { items: [], usage: null } from the catch block.
fetchSportsGame(teamName, outcome) ==
  IF outcome = "unknownLeague" THEN [items |-> <<>>, usage |-> Null]
  ELSE IF outcome = "ok"
    THEN IF ~modelFlash
           THEN [items |-> <<Item(GameTitle(teamName), "detail", "ESPN")>>,
                 usage |-> Null]
           ELSE [items |-> <<Item(RecapTitle(teamName), "recap", teamName)>>,
                 usage |-> Usage(teamName)]
    ELSE [items |-> <<>>, usage |-> Null]

\* fetchSurflineConditions(spotIds, location), spotIds being configured
fetchSurflineConditions(outcome) ==
  IF outcome = "ok"
    THEN [summary |-> "surf report"]
    ELSE [summary |-> "Surf conditions unavailable (API error)", error |-> "message"]

\* fetchOlympicsUpdates()
fetchOlympicsUpdates(s) ==
  IF ~areOlympicsActive(s)
    THEN [summary |-> "No Olympics currently active", active |-> FALSE]
    ELSE [summary |-> "Olympics: Live coverage available", active |-> TRUE]

\* fetchWorldCupUpdates()
fetchWorldCupUpdates(s) ==
  IF ~isWorldCupActive(s)
    THEN [summary |-> "No World Cup currently active", active |-> FALSE]
    ELSE [summary |-> "FIFA World Cup: Live coverage available", active |-> TRUE]

\* if (olympicsEvent?.enabled) ... if (!olympicsEvent.onlyDuringEvent ||
\* olympicsStatus.active) promises.push(fetchOlympicsUpdates()...)
EventFetched(flags, active) == flags.enabled /\ (~flags.onlyDuringEvent \/ active)

\* The source clients fetchAdditionalSourcing calls for a configuration.
InvokedFor(c, s) ==
  (IF c.realEstate THEN {"fetchRealEstateNews"} ELSE {})
    \cup (IF c.sports THEN {"fetchSportsGame"} ELSE {})
    \cup (IF c.sports /\ c.teamsWithRSS # {} THEN {"fetchTeamRSSFeed"} ELSE {})
    \cup (IF c.internationalRelations THEN {"fetchIranNews"} ELSE {})
    \cup (IF c.news THEN {"fetchNewsFeeds"} ELSE {})
    \cup (IF c.surfConditions THEN {"fetchSurflineConditions"} ELSE {})
    \cup (IF EventFetched(c.olympics, areOlympicsActive(s))
            THEN {"fetchOlympicsUpdates"} ELSE {})
    \cup (IF EventFetched(c.worldcup, isWorldCupActive(s))
            THEN {"fetchWorldCupUpdates"} ELSE {})

\* The client that fetches a category.
ClientOf(c) ==
  CASE c = "realEstate" -> "fetchRealEstateNews"
    [] c = "sports"     -> "fetchSportsGame"
    [] c = "iran"       -> "fetchIranNews"
    [] c = "news"       -> "fetchNewsFeeds"
    [] c = "surf"       -> "fetchSurflineConditions"
    [] c = "olympics"   -> "fetchOlympicsUpdates"
    [] c = "worldcup"   -> "fetchWorldCupUpdates"

\* const teamsWithRSS = teams.filter(team => team.rssFeedUrl), inside
\* if (config?.content?.sports?.enabled)
RSSTeamsOf(c) == IF c.sports THEN c.teamsWithRSS ELSE {}

\* The state of the calls when the synchronous part of fetchAdditionalSourcing
\* is over: every client called has issued its first request; the later
\* feeds of a feed loop wait for their turn; fetchSportsGame of a team of an
\* unknown league has returned before any request.
Launched(inv, rss, unknown) ==
  [name \in CallNames |->
     IF \E c \in FeedCategories :
          ClientOf(c) \in inv /\ FeedsOf(c)[1] = name
       THEN Pending
     ELSE IF \E c \in FeedCategories :
          ClientOf(c) \in inv /\ name \in Range(FeedsOf(c))
       THEN Queued
     ELSE IF name \in Range(Teams) /\ "fetchSportsGame" \in inv
       THEN IF name \in unknown
              THEN Done("unknownLeague", fetchSportsGame(name, "unknownLeague"))
              ELSE Pending
     ELSE IF name = "Surfline" /\ "fetchSurflineConditions" \in inv THEN Pending
     ELSE IF \E teamName \in rss : name = TeamRSSFeed(teamName) THEN Pending
     ELSE Off]

Settled(t, name) == t[name].st = "done"

\* allItems of a feed loop: the items of the feeds fetched so far, in order.
allItems(t, c) ==
  Flatten([i \in DOMAIN FeedsOf(c) |->
             IF Settled(t, FeedsOf(c)[i]) THEN t[FeedsOf(c)[i]].out ELSE <<>>])

FeedsDone(t, c) == \A i \in DOMAIN FeedsOf(c) : Settled(t, FeedsOf(c)[i])

\* if (!modelFlash || allItems.length === 0) return { items: allItems, ... }
NeedsSummary(t, c) ==
  c \in SummarizedCategories /\ modelFlash /\ allItems(t, c) # <<>>

SummaryTitle(c) ==
  IF c = "realEstate" THEN "Real Estate Market Analysis" ELSE "News Update"

FeedClientResultNoFallback(t, c) ==
  IF ~NeedsSummary(t, c) THEN [items |-> allItems(t, c), usage |-> Null]
  ELSE IF t[SummaryCall(c)].how = "ok"
    THEN [items |-> <<Item(SummaryTitle(c), "summary", SummaryCall(c))>>,
          usage |-> Usage(SummaryCall(c))]
  ELSE [items |-> <<>>, usage |-> Null]

\* The value fetchRealEstateNews, fetchNewsFeeds or fetchIranNews resolves to.
FeedClientResult(t, c) ==
  IF ~NeedsSummary(t, c) THEN [items |-> allItems(t, c), usage |-> Null]
  ELSE IF t[SummaryCall(c)].how = "ok"
    THEN [items |-> <<Item(SummaryTitle(c), "summary", SummaryCall(c))>>,
          usage |-> Usage(SummaryCall(c))]
  ELSE [items |-> allItems(t, c), usage |-> Null]

\* How the generateContent call of fetchTeamRSSFeed can go: the answer
\* parses to an array of items; it does not (no JSON, no array, or []); or
\* the call rejects.
AnalysisOutcomes == {"ok", "empty", "error"}

\* fetchTeamRSSFeed: if (items.length === 0) return ...; if (!modelFlash)
\* return the raw items; otherwise the items are analysed.
NeedsAnalysis(t, teamName) ==
  Settled(t, TeamRSSFeed(teamName)) /\ t[TeamRSSFeed(teamName)].out # <<>> /\ modelFlash

\* The value fetchTeamRSSFeed(team.name, team.rssFeedUrl, 3) resolves to.
fetchTeamRSSFeed(t, teamName) ==
  LET raw  == t[TeamRSSFeed(teamName)].out
      call == TeamRSSAnalysis(teamName)
  IN  IF raw = <<>> THEN [items |-> <<>>, usage |-> Null]
      ELSE IF ~modelFlash
        THEN [items |-> [i \in DOMAIN raw |->
                           Item("Analysis: Headline", raw[i].summary, raw[i].source)],
              usage |-> Null]
      ELSE IF t[call].how = "error" THEN [items |-> <<>>, usage |-> Null]
      ELSE IF t[call].how = "empty" THEN [items |-> <<>>, usage |-> Usage(call)]
      ELSE [items |-> <<Item(call, "fan sentiment", TeamRSSFeed(teamName))>>,
            usage |-> Usage(call)]

\* Has the promise of fetchTeamRSSFeed for the team resolved?
TeamRSSResolved(t, teamName) ==
  /\ Settled(t, TeamRSSFeed(teamName))
  /\ NeedsAnalysis(t, teamName) => Settled(t, TeamRSSAnalysis(teamName))

\* The teams fetchTeamRSSFeed was called for, in the order of teams.
RSSTeams(t) == SelectSeq(Teams, LAMBDA teamName : t[TeamRSSFeed(teamName)].st # "off")

\* Has the promise pushed for the category resolved?
Resolved(t, c) ==
  CASE c \in FeedCategories ->
         FeedsDone(t, c) /\ (NeedsSummary(t, c) => Settled(t, SummaryCall(c)))
    [] c = "sports" ->
         /\ \A i \in DOMAIN Teams : Settled(t, Teams[i])
         /\ \A i \in DOMAIN RSSTeams(t) : TeamRSSResolved(t, RSSTeams(t)[i])
    [] c = "surf"   -> Settled(t, "Surfline")
    [] OTHER        -> TRUE

\* const items = { realEstate: results.realEstate?.items || [], sports: [],
\* ... }, then the flattening of results.sports.
BuildItems(t, inv, s) ==
  [c \in Categories |->
     IF ClientOf(c) \notin inv THEN <<>>
     ELSE CASE c \in FeedCategories -> FeedClientResult(t, c).items
            [] c = "sports" ->
                 Flatten([i \in DOMAIN Teams |-> t[Teams[i]].out.items])
                   \o Flatten([i \in DOMAIN RSSTeams(t) |->
                                 fetchTeamRSSFeed(t, RSSTeams(t)[i]).items])
            [] c = "surf" ->
                 <<Item("Surf Conditions", t["Surfline"].out.summary, "Surfline")>>
            [] c = "olympics" ->
                 <<Item("Olympics Update", fetchOlympicsUpdates(s).summary, "Olympics")>>
            [] c = "worldcup" ->
                 <<Item("World Cup Update", fetchWorldCupUpdates(s).summary, "World Cup")>>]

\* const usage = { geminiFlash: { promptTokens: 0, candidatesTokens: 0 } }
ZeroUsage == [geminiFlash |-> [promptTokens |-> 0, candidatesTokens |-> 0]]

AddUsageLast(total, result) ==
  IF result.usage = Null THEN total ELSE result.usage

\* if (result.usage?.geminiFlash) { usage.geminiFlash.promptTokens +=
\* result.usage.geminiFlash.promptTokens || 0; ... candidatesTokens ... }
AddUsage(total, result) ==
  IF result.usage = Null THEN total
  ELSE [geminiFlash |->
          [promptTokens |->
             total.geminiFlash.promptTokens + result.usage.geminiFlash.promptTokens,
           candidatesTokens |->
             total.geminiFlash.candidatesTokens
               + result.usage.geminiFlash.candidatesTokens]]

\* The results whose usage is combined, in the order of the code: real
\* estate, the sports games, the team RSS feeds, the news feeds.
UsageResults(t, inv) ==
  (IF "fetchRealEstateNews" \in inv THEN <<FeedClientResult(t, "realEstate")>> ELSE <<>>)
    \o (IF "fetchSportsGame" \in inv
          THEN [i \in DOMAIN Teams |-> t[Teams[i]].out] ELSE <<>>)
    \o [i \in DOMAIN RSSTeams(t) |-> fetchTeamRSSFeed(t, RSSTeams(t)[i])]
    \o (IF "fetchNewsFeeds" \in inv THEN <<FeedClientResult(t, "news")>> ELSE <<>>)

RECURSIVE CombineUsage(_, _)
CombineUsage(found, total) ==
  IF found = <<>> THEN total
  ELSE CombineUsage(Tail(found), AddUsage(total, Head(found)))

\* The usage object fetchAdditionalSourcing returns.
BuildUsage(t, inv) == CombineUsage(UsageResults(t, inv), ZeroUsage)

\* No call of fetchAdditionalSourcing has returned.
NoBundle == <<>>

(***************************************************************************)
(* fetcher.js: fetchAdditionalSourcing, the callbacks and the results      *)
(***************************************************************************)

\* const promises = [] and const results = {} before anything is pushed or
\* written.
NoPromises == <<>>

NoResults == <<>>

SlotsIdle ==
  /\ promises = NoPromises
  /\ results = NoResults

\* The clients that make one call each.
FeedClients ==
  {"fetchRealEstateNews", "fetchIranNews", "fetchNewsFeeds", "fetchSurflineConditions"}

SlotOfShared(client) ==
  CASE client = "fetchRealEstateNews"     -> "realEstate"
    [] client = "fetchSportsGame"         -> "sports"
    [] client = "fetchTeamRSSFeed"        -> "teamRSS"
    [] client = "fetchIranNews"           -> "news"
    [] client = "fetchNewsFeeds"          -> "news"
    [] client = "fetchSurflineConditions" -> "surf"
    [] client = "fetchOlympicsUpdates"    -> "olympics"
    [] client = "fetchWorldCupUpdates"    -> "worldcup"

\* The key the callback pushed for a client writes: res => { results.key = res }
SlotOf(client) ==
  CASE client = "fetchRealEstateNews"     -> "realEstate"
    [] client = "fetchSportsGame"         -> "sports"
    [] client = "fetchTeamRSSFeed"        -> "teamRSS"
    [] client = "fetchIranNews"           -> "iran"
    [] client = "fetchNewsFeeds"          -> "news"
    [] client = "fetchSurflineConditions" -> "surf"
    [] client = "fetchOlympicsUpdates"    -> "olympics"
    [] client = "fetchWorldCupUpdates"    -> "worldcup"

\* The calls whose values the promise pushed for a client resolves with: the
\* calls of teams.map(...) in the order of teams under Promise.all, the call
\* of the client otherwise.
CallsOf(client, c) ==
  CASE client = "fetchSportsGame"  -> Teams
    [] client = "fetchTeamRSSFeed" ->
         LET withRSS == SelectSeq(Teams, LAMBDA teamName : teamName \in RSSTeamsOf(c))
         IN  [i \in DOMAIN withRSS |-> TeamRSSFeed(withRSS[i])]
    [] OTHER -> <<client>>

\* The calls of all the clients called.
SlotCalls(inv, c) == UNION { Range(CallsOf(client, c)) : client \in inv }

\* The value a call resolves to, by how it went: what the client of a
\* summarized category, of a feed, of a team or of the surf report returns.
ResultOf(name, outcome, s) ==
  CASE name = "fetchRealEstateNews" ->
         IF outcome = "ok"
           THEN [items |-> <<Item(SummaryTitle("realEstate"), "summary",
                                  SummaryCall("realEstate"))>>,
                 usage |-> Usage(SummaryCall("realEstate"))]
           ELSE [items |-> <<>>, usage |-> Null]
    [] name = "fetchNewsFeeds" ->
         IF outcome = "ok"
           THEN [items |-> <<Item(SummaryTitle("news"), "summary", SummaryCall("news"))>>,
                 usage |-> Usage(SummaryCall("news"))]
           ELSE [items |-> <<>>, usage |-> Null]
    [] name = "fetchIranNews" ->
         [items |-> fetchRSSFeed(IranFeeds[1], outcome), usage |-> Null]
    [] name = "fetchSurflineConditions" -> fetchSurflineConditions(outcome)
    [] name = "fetchOlympicsUpdates" -> fetchOlympicsUpdates(s)
    [] name = "fetchWorldCupUpdates" -> fetchWorldCupUpdates(s)
    [] name \in Range(Teams) -> fetchSportsGame(name, outcome)
    [] name \in TeamRSSFeeds ->
         LET teamName == CHOOSE x \in Range(Teams) : TeamRSSFeed(x) = name IN
         IF outcome = "ok"
           THEN [items |-> <<Item(TeamRSSAnalysis(teamName), "fan sentiment", name)>>,
                 usage |-> Usage(TeamRSSAnalysis(teamName))]
           ELSE [items |-> <<>>, usage |-> Null]

\* What the promise pushed for a client resolves with: the array of
\* Promise.all for the team calls, the value of the call otherwise.
ResolvedWith(client, t, c) ==
  LET names == CallsOf(client, c) IN
  IF client \in {"fetchSportsGame", "fetchTeamRSSFeed"}
    THEN [i \in DOMAIN names |-> t[names[i]].out]
    ELSE t[client].out

Written(res, key) == key \in DOMAIN res

\* for (const r of results.key) items.sports.push(...(r.items || []))
FlatItems(res, key) ==
  IF Written(res, key) THEN Flatten([i \in DOMAIN res[key] |-> res[key][i].items])
  ELSE <<>>

\* const items = { realEstate: results.realEstate?.items || [], sports: [],
\* ..., surf: results.surf ? [{ title: 'Surf Conditions', ... }] : [], ... },
\* then the flattening of results.sports and results.teamRSS.
ItemsFrom(res) ==
  [c \in Categories |->
     CASE c \in FeedCategories -> IF Written(res, c) THEN res[c].items ELSE <<>>
       [] c = "sports" -> FlatItems(res, "sports") \o FlatItems(res, "teamRSS")
       [] c = "surf" ->
            IF Written(res, c)
              THEN <<Item("Surf Conditions", res[c].summary, "Surfline")>> ELSE <<>>
       [] c = "olympics" ->
            IF Written(res, c)
              THEN <<Item("Olympics Update", res[c].summary, "Olympics")>> ELSE <<>>
       [] c = "worldcup" ->
            IF Written(res, c)
              THEN <<Item("World Cup Update", res[c].summary, "World Cup")>> ELSE <<>>]

\* The usage total: real estate, results.sports, results.teamRSS, news.
UsageFrom(res) ==
  CombineUsage((IF Written(res, "realEstate") THEN <<res["realEstate"]>> ELSE <<>>)
                 \o (IF Written(res, "sports") THEN res["sports"] ELSE <<>>)
                 \o (IF Written(res, "teamRSS") THEN res["teamRSS"] ELSE <<>>)
                 \o (IF Written(res, "news") THEN <<res["news"]>> ELSE <<>>),
               ZeroUsage)

\* The configurations whose callbacks are followed: every feed category, the
\* surf report and sports on or off, no team or every team with an rssFeedUrl.
SlotContents ==
  { [NoContent EXCEPT !.realEstate = re, !.sports = sp, !.internationalRelations = ir,
                      !.news = nw, !.surfConditions = sf, !.teamsWithRSS = rss] :
      re \in BOOLEAN, sp \in BOOLEAN, ir \in BOOLEAN, nw \in BOOLEAN, sf \in BOOLEAN,
      rss \in {{}, Range(Teams)} }

(***************************************************************************)
(* costTracker.js: the CostTracker class                                   *)
(***************************************************************************)

\* RATES, in units of 10^-8 dollar per token or character (3.00 / 1_000_000
\* is 300 units).
RATES ==
  [claude |-> [input |-> 300, output |-> 1500],
   gemini |-> [geminiPro     |-> [input |-> 125, output |-> 375],
               geminiFlash   |-> [input |-> 10, output |-> 40],
               gemini2Flash  |-> [input |-> 10, output |-> 40],
               gemini25Flash |-> [input |-> 10, output |-> 40]],
   tts    |-> [standard |-> 400, wavenet |-> 1600]]

\* constructor(): this.costs and this.usage, all zero.
NewCostTracker ==
  [costs |-> [claude |-> 0, gemini |-> 0, tts |-> 0, twitter |-> 0, total |-> 0],
   usage |-> [claudeInputTokens |-> 0, claudeOutputTokens |-> 0,
              geminiProInputTokens |-> 0, geminiProOutputTokens |-> 0,
              geminiFlashInputTokens |-> 0, geminiFlashOutputTokens |-> 0,
              gemini2FlashInputTokens |-> 0, gemini2FlashOutputTokens |-> 0,
              gemini25FlashInputTokens |-> 0, gemini25FlashOutputTokens |-> 0,
              ttsCharacters |-> 0, twitterCalls |-> 0]]

\* if (usage.geminiPro) { proInput = usage.geminiPro.promptTokens || 0 }
PromptOf(usage, model) ==
  IF model \in DOMAIN usage THEN usage[model].promptTokens ELSE 0

\* if (usage.geminiPro) { proOutput = usage.geminiPro.candidatesTokens || 0 }
CandidatesOf(usage, model) ==
  IF model \in DOMAIN usage THEN usage[model].candidatesTokens ELSE 0

\* proCost, flashCost, flash2Cost, flash25Cost
GeminiCost(usage, model) ==
  PromptOf(usage, model) * RATES.gemini[model].input
    + CandidatesOf(usage, model) * RATES.gemini[model].output

\* trackGemini(usage): totalCost
GeminiTotalCost(usage) ==
  GeminiCost(usage, "geminiPro") + GeminiCost(usage, "geminiFlash")
    + GeminiCost(usage, "gemini2Flash") + GeminiCost(usage, "gemini25Flash")

\* trackGemini(usage), usage being an object: the tracker afterwards.
trackGemini(tracker, usage) ==
  [costs |-> [tracker.costs EXCEPT !.gemini = @ + GeminiTotalCost(usage),
                                   !.total = @ + GeminiTotalCost(usage)],
   usage |-> [tracker.usage EXCEPT
     !.geminiProInputTokens = @ + PromptOf(usage, "geminiPro"),
     !.geminiProOutputTokens = @ + CandidatesOf(usage, "geminiPro"),
     !.geminiFlashInputTokens = @ + PromptOf(usage, "geminiFlash"),
     !.geminiFlashOutputTokens = @ + CandidatesOf(usage, "geminiFlash"),
     !.gemini2FlashInputTokens = @ + PromptOf(usage, "gemini2Flash"),
     !.gemini2FlashOutputTokens = @ + CandidatesOf(usage, "gemini2Flash"),
     !.gemini25FlashInputTokens = @ + PromptOf(usage, "gemini25Flash"),
     !.gemini25FlashOutputTokens = @ + CandidatesOf(usage, "gemini25Flash")]]

\* trackClaude(inputTokens, outputTokens): the tracker afterwards.
trackClaude(tracker, inputTokens, outputTokens) ==
  LET totalCost == inputTokens * RATES.claude.input + outputTokens * RATES.claude.output
  IN  [costs |-> [tracker.costs EXCEPT !.claude = @ + totalCost, !.total = @ + totalCost],
       usage |-> [tracker.usage EXCEPT !.claudeInputTokens = @ + inputTokens,
                                       !.claudeOutputTokens = @ + outputTokens]]

\* trackTTS(characters, voiceType): the tracker afterwards.
trackTTS(tracker, characters, voiceType) ==
  LET cost == characters * RATES.tts[voiceType]
  IN  [costs |-> [tracker.costs EXCEPT !.tts = @ + cost, !.total = @ + cost],
       usage |-> [tracker.usage EXCEPT !.ttsCharacters = @ + characters]]

\* What a track call gave back: its cost, or the TypeError of reading a
\* property of null or undefined.
Returned(cost) == [totalCost |-> cost]

TypeError == [error |-> "TypeError"]

NoCall == [none |-> TRUE]

\* The token counts of a usage record.
TokenCounts == [promptTokens : 0..MaxTokens, candidatesTokens : 0..MaxTokens]

\* The usage of a call to gemini-flash: { geminiFlash: { promptTokens,
\* candidatesTokens } }
FlashUsages == [geminiFlash : TokenCounts]

\* The usage synthesizeScript returns with Gemini: the script by gemini-pro,
\* the episode summary by gemini-flash.
SynthesizerUsages ==
  { [geminiPro |-> counts, geminiFlash |-> counts] : counts \in TokenCounts }

\* The usage synthesizeScript returns with Claude: { inputTokens,
\* outputTokens }
ClaudeUsages == [inputTokens : 0..MaxTokens, outputTokens : 0..MaxTokens]

\* The ledger of a run: its CostTracker, the tracker that every usage the
\* run's capabilities returned would have produced, the number of those,
\* the last argument and result of a track call, and the position of run.
Ledger(tracker, all, n, arg, result, position) ==
  [costTracker |-> tracker, emitted |-> all, n |-> n, arg |-> arg,
   tracked |-> result, pc |-> position, dryRun |-> FALSE]

\* No CostTracker is in use.
NoLedger == <<>>

(***************************************************************************)
(* fetcher.js: fetchArticles                                               *)
(***************************************************************************)

\* No call of fetchArticles is being made.
NoArticlesCall == <<>>

\* No sequence of runs is being followed.
NoJournal == <<>>

ArticlesIdle ==
  /\ articlesCall = NoArticlesCall
  /\ journal = NoJournal

\* config.content.articles: maxPerEpisode is 0 when the key is not set,
\* killTheNewsletterFeedUrl is whether the URL is set, and maxItems of a feed
\* is <<>> when the key is not set and <<n>> when it is n.
ArticlesConfig(enabled, maxPer, ktn, feeds) ==
  [enabled |-> enabled, maxPerEpisode |-> maxPer,
   killTheNewsletterFeedUrl |-> ktn, feeds |-> feeds]

\* An entry (item or entry element) of a feed document: the trimmed text of
\* its title, "" when it has none, and its link: "" when none is found, "ktn"
\* for a link into kill-the-newsletter.com/feeds, "page" for any other.
Entry(title, link) == [title |-> title, link |-> link]

\* The answer to the GET of a feed: the document, or a failure.
FeedFailed == [ok |-> FALSE]

FeedDocument(entries) == [ok |-> TRUE, entries |-> entries]

\* const maxPerEpisode = articlesConfig.maxPerEpisode || 2
maxPerEpisodeOf(articlesConfig) ==
  IF articlesConfig.maxPerEpisode = 0 THEN 2 ELSE articlesConfig.maxPerEpisode

\* feedSources: the legacy URL first, with maxItems: maxPerEpisode, then
\* feeds[], each with maxItems: feed.maxItems ?? maxPerEpisode
feedSourcesOf(articlesConfig) ==
  LET feeds == articlesConfig.feeds IN
  (IF articlesConfig.killTheNewsletterFeedUrl
     THEN << [name |-> "Kill The Newsletter",
              maxItems |-> maxPerEpisodeOf(articlesConfig)] >>
     ELSE <<>>)
  \o [i \in DOMAIN feeds |->
        [name |-> feeds[i].name,
         maxItems |-> IF feeds[i].maxItems = <<>> THEN maxPerEpisodeOf(articlesConfig)
                      ELSE feeds[i].maxItems[1]]]

\* .slice(0, n)
Take(seq, n) == SubSeq(seq, 1, Min(Len(seq), n))

\* if (title && link && !link.includes('kill-the-newsletter.com/feeds'))
\*   if (!hasArticleBeenCovered(episodeMemory, title, 30)) feedLinks.push(...)
feedLinksOf(entries, episodeMemory, now) ==
  SelectSeq(entries,
            LAMBDA e : /\ e.title # ""
                       /\ e.link = "page"
                       /\ ~hasArticleBeenCovered(episodeMemory, e.title,
                                                 ArticleWindowDays, now))

cappedThenFiltered(entries, maxItems, episodeMemory, now) ==
  feedLinksOf(Take(entries, maxItems), episodeMemory, now)

\* allArticleLinks.push(...feedLinks.slice(0, feedSource.maxItems))
feedLinksCapped(entries, maxItems, episodeMemory, now) ==
  Take(feedLinksOf(entries, episodeMemory, now), maxItems)

\* The loop over feedSources: a feed whose GET fails is skipped (continue).
allArticleLinksOf(articlesConfig, episodeMemory, now, web) ==
  LET sources == feedSourcesOf(articlesConfig) IN
  Flatten([i \in DOMAIN sources |->
             LET response == web.feeds[sources[i].name] IN
             IF ~response.ok THEN <<>>
             ELSE LET links == feedLinksCapped(response.entries, sources[i].maxItems,
                                               episodeMemory, now)
                  IN  [k \in DOMAIN links |->
                         [title |-> links[k].title, source |-> sources[i].name]]])

\* const articlesToFetch = allArticleLinks.slice(0, maxPerEpisode)
articlesToFetchOf(articlesConfig, episodeMemory, now, web) ==
  Take(allArticleLinksOf(articlesConfig, episodeMemory, now, web),
       maxPerEpisodeOf(articlesConfig))

\* fetchArticles(config, episodeMemory), now being the clock of the process
\* and web what the feeds and the article pages answer: a page that fails, or
\* whose text is shorter than 200 characters, is skipped (continue).
fetchArticles(articlesConfig, episodeMemory, now, web) ==
  LET toFetch == articlesToFetchOf(articlesConfig, episodeMemory, now, web)
      articles == SelectSeq(toFetch, LAMBDA a : web.pages[a.title] = "ok")
  IN  IF ~articlesConfig.enabled \/ feedSourcesOf(articlesConfig) = <<>>
           \/ toFetch = <<>> \/ ~modelFlash
        THEN [items |-> <<>>, usage |-> Null]
        ELSE [items |-> articles,
              usage |-> IF articles # <<>> THEN [geminiFlash |-> TRUE] ELSE Null]

\* articlesData.items.map(article => article.title)
TitlesOf(items) == [i \in DOMAIN items |-> items[i].title]

\* The titles the feed documents carry.
ArticleTitles == {"Foo Bar", "foo bar", "Baz", "Qux"}

\* The documents a feed answers with: nothing, three articles, a re-cased
\* title first, and entries without title or without a usable link.
FeedDocuments ==
  { FeedFailed,
    FeedDocument(<<>>),
    FeedDocument(<<Entry("Foo Bar", "page"), Entry("Baz", "page"), Entry("Qux", "page")>>),
    FeedDocument(<<Entry("foo bar", "page"), Entry("Qux", "page")>>),
    FeedDocument(<<Entry("", "page"), Entry("Baz", "ktn"), Entry("Qux", ""),
                   Entry("Baz", "page")>>) }

\* How the article pages answer: all well, or one of them too short or failing.
PageAnswers ==
  { [t \in ArticleTitles |-> "ok"],
    [t \in ArticleTitles |-> IF t = "Baz" THEN "short" ELSE "ok"],
    [t \in ArticleTitles |-> IF t = "Qux" THEN "failed" ELSE "ok"] }

Webs ==
  { [feeds |-> [n \in {"Kill The Newsletter", "blog"} |->
                  IF n = "blog" THEN blog ELSE ktn],
     pages |-> pages] :
      ktn \in FeedDocuments, blog \in FeedDocuments, pages \in PageAnswers }

\* The articles configurations: switched off, or on with the cap unset, 1 or
\* 2, with or without the legacy feed, and no, one (cap unset, 1 or 3) feed.
ArticlesConfigs ==
  { ArticlesConfig(TRUE, maxPer, ktn, feeds) :
      maxPer \in {0, 1, 2}, ktn \in BOOLEAN,
      feeds \in {<<>>} \cup { << [name |-> "blog", maxItems |-> m] >> :
                                m \in {<<>>, <<1>>, <<3>>} } }
    \cup {ArticlesConfig(FALSE, 0, TRUE, <<>>)}

\* The day of the calls of fetchArticles taken alone.
ArticlesDay == 40

\* The memories the calls read: none, and one record that lists an article
\* 3 days ago or 31 days ago.
ArticlesMemories ==
  { EmptyMemory,
    [episodes |-> <<StoredRecord(ArticlesDay - 3, << <<"Foo Bar">> >>)>>],
    [episodes |-> <<StoredRecord(ArticlesDay - 3, << <<"Baz", "Qux">> >>)>>],
    [episodes |-> <<StoredRecord(ArticlesDay - 31, << <<"Foo Bar">> >>)>>] }

ArticlesCall(articlesConfig, episodeMemory, now, web) ==
  [config |-> articlesConfig, episodeMemory |-> episodeMemory, now |-> now,
   web |-> web, done |-> FALSE, result |-> [items |-> <<>>, usage |-> Null]]

(***************************************************************************)
(* Initial states                                                          *)
(***************************************************************************)

\* No call of fetchAdditionalSourcing is in progress: nothing is configured
\* and no promise exists.
AggIdle ==
  /\ contentCfg = NoContent
  /\ season = "none"
  /\ aggPc = "idle"
  /\ task = <<>>
  /\ invoked = {}
  /\ bundle = NoBundle
  /\ ledger = NoLedger
  /\ lookup = NoLookup
  /\ ArticlesIdle
  /\ SlotsIdle

\* The state of a call of fetchAdditionalSourcing before it starts.
AggStart(c, s, position) ==
  /\ ledger = NoLedger
  /\ lookup = NoLookup
  /\ ArticlesIdle
  /\ SlotsIdle
  /\ contentCfg = c
  /\ season = s
  /\ aggPc = position
  /\ task = [name \in CallNames |-> Off]
  /\ invoked = {}
  /\ bundle = NoBundle

MemStart(m, day) ==
  /\ memory = m
  /\ memoryData = m
  /\ newRecord = NoRecord
  /\ lastUpsert = [d \in Dates |-> 0]
  /\ calls = 0
  /\ maxDate = day
  /\ outOfOrder = 0

\* The locals of run at the start of an attempt.
RunStart(position) ==
  /\ pc = [p \in Procs |-> position]
  /\ attempt = [p \in Procs |-> 1]
  /\ episodeMemoryData = [p \in Procs |-> EmptyMemory]
  /\ episodeMemorySha = [p \in Procs |-> Null]
  /\ episodeMemoryForPrompt = [p \in Procs |-> EmptyDigest]
  /\ articlesData = [p \in Procs |-> <<>>]
  /\ dateStr = [p \in Procs |-> 0]
  /\ summary = [p \in Procs |-> "none"]
  /\ keyTopics = [p \in Procs |-> <<>>]
  /\ readResult = [p \in Procs |-> NoRead]
  /\ writeRequest = [p \in Procs |-> NoRequest]
  /\ writeResult = [p \in Procs |-> NoAnswer]
  /\ events = [p \in Procs |-> <<>>]
  /\ warnings = [p \in Procs |-> {}]
  /\ reads = [p \in Procs |-> 0]
  /\ writes = [p \in Procs |-> 0]

EnvStart(h, dry, art, missing) ==
  /\ file = IF h = 0 THEN NoFile ELSE File(History(h))
  /\ feed = 1..h
  /\ today = Max(h, 1)
  /\ ticks = 0
  /\ failures = 0
  /\ config = [dryRun |-> dry, articlesEnabled |-> art, missing |-> missing]

\* From the empty memory (first run, backend not-found); no pipeline runs.
InitMem ==
  /\ MemStart(EmptyMemory, 0)
  /\ EnvStart(0, FALSE, FALSE, {})
  /\ RunStart("idle")
  /\ AggIdle

\* From any input memory, on the eve of the last modelled day.
InitAny ==
  /\ \E m \in AnyMemories : MemStart(m, NumDates - 1)
  /\ EnvStart(0, FALSE, FALSE, {})
  /\ RunStart("idle")
  /\ AggIdle

\* The invocations of runWithRetry about to start, over the history of
\* earlier runs.
Init ==
  /\ MemStart(EmptyMemory, 0)
  /\ \E h \in HistoryLengths, dry \in BOOLEAN, art \in BOOLEAN, missing \in MissingEnv :
       EnvStart(h, dry, art, missing)
  /\ RunStart("start")
  /\ AggIdle

\* A call of fetchAdditionalSourcing about to start, for any configuration
\* and any time of the year.
InitAgg ==
  /\ MemStart(EmptyMemory, 0)
  /\ EnvStart(0, FALSE, FALSE, {})
  /\ RunStart("idle")
  /\ \E c \in Contents, s \in Seasons : AggStart(c, s, "start")

\* The configurations of the categories that call modelFlash: real estate,
\* news and sports on or off, every choice of the teams with an rssFeedUrl.
SummarizedContents ==
  { [NoContent EXCEPT !.realEstate = re, !.news = nw, !.sports = sp,
                      !.teamsWithRSS = rss] :
      re \in BOOLEAN, nw \in BOOLEAN, sp \in BOOLEAN, rss \in SUBSET Range(Teams) }

\* A call of fetchAdditionalSourcing about to start for such a configuration.
InitSummarized ==
  /\ MemStart(EmptyMemory, 0)
  /\ EnvStart(0, FALSE, FALSE, {})
  /\ RunStart("idle")
  /\ \E c \in SummarizedContents : AggStart(c, "none", "start")

\* The same configurations, with every choice of the teams whose league is
\* not one of leagueMap.
LeagueContents ==
  { [c EXCEPT !.unknownLeagues = unknown] :
      c \in SummarizedContents, unknown \in SUBSET Range(Teams) }

InitLeagues ==
  /\ MemStart(EmptyMemory, 0)
  /\ EnvStart(0, FALSE, FALSE, {})
  /\ RunStart("idle")
  /\ \E c \in LeagueContents : AggStart(c, "none", "start")

\* The configurations of the summarizing categories, with and without
\* GOOGLE_API_KEY.
KeyedContents ==
  { [c EXCEPT !.apiKey = key] : c \in SummarizedContents, key \in BOOLEAN }

InitKeyed ==
  /\ MemStart(EmptyMemory, 0)
  /\ EnvStart(0, FALSE, FALSE, {})
  /\ RunStart("idle")
  /\ \E c \in KeyedContents : AggStart(c, "none", "start")

\* Everything but the ledger is at rest.
LedgerRest ==
  /\ MemStart(EmptyMemory, 0)
  /\ EnvStart(0, FALSE, FALSE, {})
  /\ RunStart("idle")
  /\ contentCfg = NoContent
  /\ season = "none"
  /\ aggPc = "idle"
  /\ task = <<>>
  /\ invoked = {}
  /\ bundle = NoBundle
  /\ lookup = NoLookup
  /\ ArticlesIdle
  /\ SlotsIdle

\* const costTracker = new CostTracker() at the entry of run, dry or not.
InitLedger ==
  /\ LedgerRest
  /\ \E dryRun \in BOOLEAN :
       ledger = [Ledger(NewCostTracker, NewCostTracker, 0, NoCall, NoCall, "fetch")
                   EXCEPT !.dryRun = dryRun]

\* A new CostTracker, about to be called.
InitTracker ==
  /\ LedgerRest
  /\ ledger = Ledger(NewCostTracker, NewCostTracker, 0, NoCall, NoCall, "calls")

\* A lookup about to be made, on any memory, for any title and look-back,
\* at any clock.
InitLookup ==
  /\ MemStart(EmptyMemory, 0)
  /\ EnvStart(0, FALSE, FALSE, {})
  /\ RunStart("idle")
  /\ contentCfg = NoContent
  /\ season = "none"
  /\ aggPc = "idle"
  /\ task = <<>>
  /\ invoked = {}
  /\ bundle = NoBundle
  /\ ledger = NoLedger
  /\ \E data \in LookupMemories, title \in LookupTitles, days \in LookupDays,
        now \in LookupClocks :
       lookup = Lookup(data, title, days, now)
  /\ ArticlesIdle
  /\ SlotsIdle

\* The configurations without events: every category on or off.
PlainContents ==
  { c \in Contents : ~c.olympics.enabled /\ ~c.olympics.onlyDuringEvent
                       /\ ~c.worldcup.enabled /\ ~c.worldcup.onlyDuringEvent }

\* A call about to start out of season, for a configuration without events.
InitAggPlain ==
  /\ MemStart(EmptyMemory, 0)
  /\ EnvStart(0, FALSE, FALSE, {})
  /\ RunStart("idle")
  /\ \E c \in PlainContents : AggStart(c, "none", "start")

(***************************************************************************)
(* The pure function applied call after call                               *)
(***************************************************************************)

\* One call memory := addEpisodeToMemory(memory, Rec(d, s)).
AddEpisode ==
  \E d \in Dates, s \in Summaries :
    LET inOrder == d = maxDate + 1 /\ s = "s1" IN
    /\ inOrder \/ outOfOrder < MaxOutOfOrder
    /\ memoryData' = memory
    /\ newRecord' = Rec(d, s)
    /\ memory' = addEpisodeToMemory(memory, Rec(d, s))
    /\ calls' = calls + 1
    /\ lastUpsert' = [lastUpsert EXCEPT ![d] = calls + 1]
    /\ maxDate' = Max(maxDate, d)
    /\ outOfOrder' = IF inOrder THEN outOfOrder ELSE outOfOrder + 1
    /\ UNCHANGED <<envVars, runVars, obsVars, aggVars, ledger, lookup, artVars, slotVars>>

NextMem == AddEpisode

SpecMem == InitMem /\ [][NextMem]_vars

SpecAny == InitAny /\ [][NextMem]_vars

(***************************************************************************)
(* The pipeline, one action per awaited step of run                        *)
(***************************************************************************)

\* runWithRetry: for (attempt = 1; attempt <= maxRetries + 1; attempt++)
maxRetries == 2

Goto(p, position) == pc' = [pc EXCEPT ![p] = position]

Log(p, event) == events' = [events EXCEPT ![p] = Append(@, event)]

Warn(p, text) == warnings' = [warnings EXCEPT ![p] = @ \cup {text}]

\* The locals of run: their defaults at entry (lines 111-113, 129), and
\* gone once run has returned or thrown.
ResetLocals(p) ==
  /\ episodeMemoryData' = [episodeMemoryData EXCEPT ![p] = EmptyMemory]
  /\ episodeMemorySha' = [episodeMemorySha EXCEPT ![p] = Null]
  /\ episodeMemoryForPrompt' = [episodeMemoryForPrompt EXCEPT ![p] = EmptyDigest]
  /\ articlesData' = [articlesData EXCEPT ![p] = <<>>]
  /\ dateStr' = [dateStr EXCEPT ![p] = 0]
  /\ summary' = [summary EXCEPT ![p] = "none"]
  /\ keyTopics' = [keyTopics EXCEPT ![p] = <<>>]
  /\ readResult' = [readResult EXCEPT ![p] = NoRead]
  /\ writeRequest' = [writeRequest EXCEPT ![p] = NoRequest]
  /\ events' = [events EXCEPT ![p] = <<>>]
  /\ warnings' = [warnings EXCEPT ![p] = {}]

\* An awaited step rejects: the catch block of run logs PIPELINE FAILED and
\* rethrows to runWithRetry.
Throw(p) ==
  /\ failures < MaxFailures
  /\ failures' = failures + 1
  /\ Goto(p, "failed")
  /\ ResetLocals(p)
  /\ UNCHANGED <<aggVars, ledger, lookup, artVars, slotVars, memVars, file, feed, today, ticks, config, attempt, writeResult,
                 reads, writes>>

\* run returns to runWithRetry, which returns.
Return(p) ==
  /\ Goto(p, "returned")
  /\ ResetLocals(p)
  /\ UNCHANGED <<aggVars, ledger, lookup, artVars, slotVars, memVars, envVars, attempt, writeResult, reads, writes>>

\* runWithRetry calls run({ dryRun, config }): if (!dryRun) { ... if
\* (missing.length) throw new Error(`Missing required env vars`) }, ahead of
\* the try block of run.
Start(p) ==
  /\ pc[p] = "start"
  /\ IF ~config.dryRun /\ config.missing # {}
       THEN Goto(p, "failed")
       ELSE Goto(p, "fetch")
  /\ ResetLocals(p)
  /\ writeResult' = [writeResult EXCEPT ![p] = NoAnswer]
  /\ UNCHANGED <<aggVars, ledger, lookup, artVars, slotVars, memVars, envVars, attempt, reads, writes>>

AfterFetchSkipsMemory == "articles"

\* STEP 1 is followed by STEP 1.5, the memory read.
AfterFetch == "memory"

\* STEP 1: await Promise.all([fetchAINews, fetchNewsletters,
\* fetchAdditionalSourcing]); a rejection fails the attempt.
FetchContent(p) ==
  /\ pc[p] = "fetch"
  /\ \/ /\ Goto(p, AfterFetch)
        /\ UNCHANGED <<aggVars, ledger, lookup, artVars, slotVars, memVars, envVars, attempt, episodeMemoryData,
                       episodeMemorySha, episodeMemoryForPrompt, articlesData, dateStr, summary,
                       keyTopics, obsVars>>
     \/ Throw(p)

AfterReadAbort(threw) == IF threw THEN "failed" ELSE "articles"

\* STEP 1.5 is followed by STEP 1.6 whether the read returned or threw: the
\* catch block only warns.
AfterRead(threw) == "articles"

\* STEP 1.5: try { { data, sha } = await getEpisodeMemory(config) ... }
\* catch (err) { warn; continue without cross-episode context }
ReadMemory(p) ==
  /\ pc[p] = "memory"
  /\ \E fault \in Faults :
       LET response == BackendGet(file, fault)
           got      == getEpisodeMemory(response)
       IN  /\ readResult' = [readResult EXCEPT ![p] =
                               IF got.threw
                                 THEN [threw |-> TRUE, answer |-> AnswerOf(response)]
                                 ELSE [threw |-> FALSE, answer |-> AnswerOf(response),
                                       data |-> got.data, sha |-> got.sha]]
           /\ Goto(p, AfterRead(got.threw))
           /\ IF got.threw
                THEN /\ Warn(p, "could not load episode memory")
                     /\ UNCHANGED <<episodeMemoryData, episodeMemorySha,
                                    episodeMemoryForPrompt>>
                ELSE /\ episodeMemoryData' = [episodeMemoryData EXCEPT ![p] = got.data]
                     /\ episodeMemorySha' = [episodeMemorySha EXCEPT ![p] = got.sha]
                     /\ episodeMemoryForPrompt' =
                          [episodeMemoryForPrompt EXCEPT ![p] =
                             formatMemoryForPrompt(got.data, PromptWindowDays,
                                                   UTCMidnight(today))]
                     /\ UNCHANGED warnings
  /\ Log(p, "read")
  /\ reads' = [reads EXCEPT ![p] = @ + 1]
  /\ UNCHANGED <<aggVars, ledger, lookup, artVars, slotVars, memVars, envVars, attempt, articlesData, dateStr, summary,
                 keyTopics, writeRequest, writeResult, writes>>

\* STEP 1.6: if (config.content.articles.enabled)
\*   articlesData = await fetchArticles(config, episodeMemoryData)
\* The feed offers a candidate title or nothing; a covered candidate is
\* skipped; the analysis of an uncovered one succeeds or fails. Never throws.
FetchArticles(p) ==
  /\ pc[p] = "articles"
  /\ IF config.articlesEnabled
       THEN /\ \E items \in {<<>>} \cup { <<title>> : title \in FeedTitles } :
                 /\ \A i \in DOMAIN items :
                      ~hasArticleBeenCovered(episodeMemoryData[p], items[i],
                                             ArticleWindowDays, UTCMidnight(today))
                 /\ articlesData' = [articlesData EXCEPT ![p] = items]
            /\ Log(p, "dedup")
       ELSE UNCHANGED <<articlesData, events>>
  /\ Goto(p, "synthesize")
  /\ UNCHANGED <<aggVars, ledger, lookup, artVars, slotVars, memVars, envVars, attempt, episodeMemoryData, episodeMemorySha, episodeMemoryForPrompt,
                 dateStr, summary, keyTopics, readResult, writeRequest,
                 writeResult, warnings, reads, writes>>

\* STEP 2: await synthesizeScript(...), then dateStr from the clock and the
\* script file; a rejection fails the attempt.  The call is the last use of
\* episodeMemoryForPrompt, which is dead from here on.
Synthesize(p) ==
  /\ pc[p] = "synthesize"
  /\ \/ /\ summary' = [summary EXCEPT ![p] = SummaryOf(p)]
        /\ dateStr' = [dateStr EXCEPT ![p] = today]
        /\ Goto(p, "tts")
        /\ Log(p, "synthesize")
        /\ episodeMemoryForPrompt' =
             [episodeMemoryForPrompt EXCEPT ![p] = EmptyDigest]
        /\ UNCHANGED <<aggVars, ledger, lookup, artVars, slotVars, memVars, envVars, attempt, episodeMemoryData,
                       episodeMemorySha, articlesData,
                       keyTopics, readResult, writeRequest, writeResult,
                       warnings, reads, writes>>
     \/ Throw(p)

AfterAudioUpdatesMemory == "topics"

\* STEP 3 is followed by STEP 4 and STEP 5, the publication; the memory
\* update is STEP 5.5.
AfterAudio == "feed"

DryRunGoesOn(dryRun) == FALSE

\* if (dryRun) { ...; costTracker.printSummary(); ...; return }
DryRunReturns(dryRun) == dryRun

\* STEP 3: await convertToAudio(...); a dry run returns here.
ConvertToAudio(p) ==
  /\ pc[p] = "tts"
  /\ \/ IF DryRunReturns(config.dryRun)
          THEN Return(p)
          ELSE /\ Goto(p, AfterAudio)
               /\ UNCHANGED <<aggVars, ledger, lookup, artVars, slotVars, memVars, envVars, attempt, episodeMemoryData,
                              episodeMemorySha, episodeMemoryForPrompt, articlesData, dateStr, summary,
                              keyTopics, obsVars>>
     \/ Throw(p)

\* STEP 4: await getCurrentFeed(...), buildUpdatedFeed(...)
BuildFeed(p) ==
  /\ pc[p] = "feed"
  /\ \/ /\ Goto(p, "publish")
        /\ UNCHANGED <<aggVars, ledger, lookup, artVars, slotVars, memVars, envVars, attempt, episodeMemoryData,
                       episodeMemorySha, episodeMemoryForPrompt, articlesData, dateStr, summary,
                       keyTopics, obsVars>>
     \/ Throw(p)

\* STEP 5: await publishEpisode(...): the episode and the feed are committed
\* to gh-pages, or the attempt fails.
Publish(p) ==
  /\ pc[p] = "publish"
  /\ \/ /\ feed' = feed \cup {dateStr[p]}
        /\ Goto(p, "topics")
        /\ Log(p, "publish")
        /\ UNCHANGED <<aggVars, ledger, lookup, artVars, slotVars, memVars, file, today, ticks, failures, config, attempt,
                       episodeMemoryData, episodeMemorySha, episodeMemoryForPrompt,
                       articlesData, dateStr, summary, keyTopics, readResult,
                       writeRequest, writeResult, warnings, reads, writes>>
     \/ Throw(p)

\* STEP 5.5, first await: extractKeyTopics(script) never throws; a failed
\* extraction yields no topics.
ExtractTopics(p) ==
  /\ pc[p] = "topics"
  /\ \E topics \in Topics : keyTopics' = [keyTopics EXCEPT ![p] = topics]
  /\ Goto(p, "commit")
  /\ Log(p, "topics")
  /\ UNCHANGED <<aggVars, ledger, lookup, artVars, slotVars, memVars, envVars, attempt, episodeMemoryData, episodeMemorySha,
                 episodeMemoryForPrompt, articlesData, dateStr, summary,
                 readResult, writeRequest, writeResult, warnings, reads, writes>>

NewRecordOfAlwaysArticles(p) ==
  [date |-> dateStr[p], summary |-> summary[p], keyTopics |-> keyTopics[p],
   articles |-> articlesData[p]]

\* const articleTitles = articlesData.items.map(article => article.title);
\* const newRecord = { date, summary, keyTopics,
\*                     ...(articleTitles.length > 0 && { articles }) }
NewRecordOf(p) ==
  IF articlesData[p] # <<>>
    THEN [date |-> dateStr[p], summary |-> summary[p], keyTopics |-> keyTopics[p],
          articles |-> articlesData[p]]
    ELSE [date |-> dateStr[p], summary |-> summary[p], keyTopics |-> keyTopics[p]]

AfterCommitRethrow(ok) == IF ok THEN "usage" ELSE "failed"

\* catch (err) { console.error('Warning: failed to update episode memory') }
\* and the run goes on to the cost summary either way.
AfterCommit(ok) == "usage"

\* STEP 5.5, second await: updatedMemory = addEpisodeToMemory(...);
\* await commitEpisodeMemory(updatedMemory, episodeMemorySha, config)
CommitMemory(p) ==
  /\ pc[p] = "commit"
  /\ \E fault \in PutFaults :
       LET updatedMemory == addEpisodeToMemory(episodeMemoryData[p], NewRecordOf(p))
           body          == commitBody(updatedMemory, episodeMemorySha[p])
           answer        == BackendPut(file, body, fault)
       IN  /\ file' = answer.file
           /\ writeRequest' = [writeRequest EXCEPT ![p] = [sent |-> TRUE, body |-> body]]
           /\ writeResult' = [writeResult EXCEPT ![p] =
                                 [done |-> TRUE, status |-> answer.status]]
           /\ IF Rejected(answer.status)
                THEN Warn(p, "failed to update episode memory")
                ELSE UNCHANGED warnings
           /\ Goto(p, AfterCommit(~Rejected(answer.status)))
  /\ Log(p, "write")
  /\ writes' = [writes EXCEPT ![p] = @ + 1]
  /\ UNCHANGED <<aggVars, ledger, lookup, artVars, slotVars, memVars, feed, today, ticks, failures, config, attempt,
                 episodeMemoryData, episodeMemorySha, episodeMemoryForPrompt, articlesData, dateStr,
                 summary, keyTopics, readResult, reads>>

\* try { await updateTTSUsage(ttsCharacters) } catch (err) { log }: run
\* returns whether the call resolves or rejects.
UpdateTTSUsage(p) ==
  /\ pc[p] = "usage"
  /\ \E ok \in BOOLEAN : Return(p)

RetryOnceMore(p) ==
  /\ pc[p] = "failed"
  /\ IF attempt[p] <= maxRetries + 1
       THEN /\ attempt' = [attempt EXCEPT ![p] = @ + 1]
            /\ Goto(p, "start")
       ELSE /\ Goto(p, "exit1")
            /\ UNCHANGED attempt
  /\ UNCHANGED <<aggVars, ledger, lookup, artVars, slotVars, memVars, envVars, episodeMemoryData, episodeMemorySha, episodeMemoryForPrompt,
                 articlesData, dateStr, summary, keyTopics, obsVars>>

\* runWithRetry, catch (error): another attempt while attempt <= maxRetries,
\* process.exit(1) after the last one.
Retry(p) ==
  /\ pc[p] = "failed"
  /\ IF attempt[p] <= maxRetries
       THEN /\ attempt' = [attempt EXCEPT ![p] = @ + 1]
            /\ Goto(p, "start")
       ELSE /\ Goto(p, "exit1")
            /\ UNCHANGED attempt
  /\ UNCHANGED <<aggVars, ledger, lookup, artVars, slotVars, memVars, envVars, episodeMemoryData, episodeMemorySha, episodeMemoryForPrompt,
                 articlesData, dateStr, summary, keyTopics, obsVars>>

\* Midnight passes.
Tick ==
  /\ ticks < MaxTicks
  /\ today' = today + 1
  /\ ticks' = ticks + 1
  /\ UNCHANGED <<aggVars, ledger, lookup, artVars, slotVars, memVars, file, feed, failures, config, runVars, obsVars>>

Next ==
  \/ \E p \in Procs :
       \/ Start(p)
       \/ FetchContent(p)
       \/ ReadMemory(p)
       \/ FetchArticles(p)
       \/ Synthesize(p)
       \/ ConvertToAudio(p)
       \/ BuildFeed(p)
       \/ Publish(p)
       \/ ExtractTopics(p)
       \/ CommitMemory(p)
       \/ UpdateTTSUsage(p)
       \/ Retry(p)
  \/ Tick

Spec == Init /\ [][Next]_vars

(***************************************************************************)
(* runWithRetry around a run that returns or throws                        *)
(***************************************************************************)

InitRetry ==
  /\ MemStart(EmptyMemory, 0)
  /\ \E dry \in BOOLEAN : EnvStart(0, dry, FALSE, {})
  /\ RunStart("start")
  /\ AggIdle

\* await run({ dryRun, config }) resolves: return
RunReturns(p) ==
  /\ pc[p] = "start"
  /\ Return(p)

\* await run({ dryRun, config }) rejects: the catch block is entered.
RunThrows(p) ==
  /\ pc[p] = "start"
  /\ Goto(p, "failed")
  /\ UNCHANGED <<aggVars, ledger, lookup, artVars, slotVars, memVars, envVars, attempt,
                 episodeMemoryData, episodeMemorySha, episodeMemoryForPrompt,
                 articlesData, dateStr, summary, keyTopics, obsVars>>

NextRetry ==
  \E p \in Procs :
    \/ RunReturns(p)
    \/ RunThrows(p)
    \/ Retry(p)

SpecRetry == InitRetry /\ [][NextRetry]_vars

\* Every invocation of run settles, and the timer of the delay fires.
FairRetry ==
  \A p \in Procs :
    /\ WF_vars(RunReturns(p) \/ RunThrows(p))
    /\ WF_vars(Retry(p))

SpecRetryFair == SpecRetry /\ FairRetry

(***************************************************************************)
(* One call of fetchAdditionalSourcing, one action per event-loop turn     *)
(***************************************************************************)

AggFrame == UNCHANGED <<memVars, envVars, runVars, obsVars, contentCfg, season, ledger, lookup, artVars, slotVars>>

\* fetchAdditionalSourcing(config) up to await Promise.all(promises): every
\* enabled client is called and runs to its first await. The two event
\* clients await nothing, so their results are there when the call suspends.
CallAggregation ==
  /\ aggPc = "start"
  /\ invoked' = InvokedFor(contentCfg, season)
  /\ task' = Launched(InvokedFor(contentCfg, season), RSSTeamsOf(contentCfg),
                      contentCfg.unknownLeagues)
  /\ aggPc' = "awaiting"
  /\ UNCHANGED bundle
  /\ AggFrame

\* for (const feed of feeds) { const items = await fetchRSSFeed(...) }: the
\* fetch of feed i settles, and the loop issues the fetch of the next feed
\* or, after the last one, the summarizer call.
FeedAnswers(c, i) ==
  LET name == FeedsOf(c)[i] IN
  /\ aggPc = "awaiting"
  /\ task[name].st = "pending"
  /\ \E outcome \in Outcomes :
       LET settled == [task EXCEPT ![name] = Done(outcome, fetchRSSFeed(name, outcome))]
       IN  task' = IF i < Len(FeedsOf(c))
                     THEN [settled EXCEPT ![FeedsOf(c)[i + 1]] = Pending]
                   ELSE IF NeedsSummary(settled, c)
                     THEN [settled EXCEPT ![SummaryCall(c)] = Pending]
                   ELSE settled
  /\ UNCHANGED <<aggPc, invoked, bundle>>
  /\ AggFrame

\* await modelFlash.generateContent(prompt) of a feed category settles.
SummarizerAnswers(c) ==
  /\ aggPc = "awaiting"
  /\ task[SummaryCall(c)].st = "pending"
  /\ \E outcome \in Outcomes :
       task' = [task EXCEPT ![SummaryCall(c)] = Done(outcome, Null)]
  /\ UNCHANGED <<aggPc, invoked, bundle>>
  /\ AggFrame

\* The requests of fetchSportsGame for a team settle.
SportsGameAnswers(teamName) ==
  /\ aggPc = "awaiting"
  /\ task[teamName].st = "pending"
  /\ \E outcome \in Outcomes :
       task' = [task EXCEPT ![teamName] = Done(outcome, fetchSportsGame(teamName, outcome))]
  /\ UNCHANGED <<aggPc, invoked, bundle>>
  /\ AggFrame

\* await Promise.all([fetchJson(waveUrl), fetchJson(windUrl),
\* fetchJson(tideUrl)]) of fetchSurflineConditions settles.
SurfAnswers ==
  /\ aggPc = "awaiting"
  /\ task["Surfline"].st = "pending"
  /\ \E outcome \in Outcomes :
       task' = [task EXCEPT !["Surfline"] = Done(outcome, fetchSurflineConditions(outcome))]
  /\ UNCHANGED <<aggPc, invoked, bundle>>
  /\ AggFrame

\* await Promise.all(promises) resolves: every promise pushed has resolved;
\* the items object is built and returned.
ReturnItems ==
  /\ aggPc = "awaiting"
  /\ \A c \in Categories : ClientOf(c) \in invoked => Resolved(task, c)
  /\ bundle' = [items |-> BuildItems(task, invoked, season),
                usage |-> BuildUsage(task, invoked)]
  /\ aggPc' = "returned"
  /\ UNCHANGED <<task, invoked>>
  /\ AggFrame

NextAgg ==
  \/ CallAggregation
  \/ \E c \in FeedCategories : \E i \in DOMAIN FeedsOf(c) : FeedAnswers(c, i)
  \/ \E c \in SummarizedCategories : SummarizerAnswers(c)
  \/ \E teamName \in Range(Teams) : SportsGameAnswers(teamName)
  \/ SurfAnswers
  \/ ReturnItems

SpecAgg == InitAgg /\ [][NextAgg]_vars

\* The event loop runs what is ready, and a timer that was set fires: a call
\* that carries a timeout settles, by an answer or by the timeout. A call
\* without one settles only if the remote end answers.
FairAgg ==
  /\ WF_vars(CallAggregation)
  /\ WF_vars(ReturnItems)
  /\ \A c \in FeedCategories :
       \A i \in { j \in DOMAIN FeedsOf(c) : HasTimeout(FeedsOf(c)[j]) } :
         WF_vars(FeedAnswers(c, i))
  /\ \A c \in { d \in SummarizedCategories : HasTimeout(SummaryCall(d)) } :
       WF_vars(SummarizerAnswers(c))
  /\ \A teamName \in { t \in Range(Teams) : HasTimeout(t) } :
       WF_vars(SportsGameAnswers(teamName))
  /\ \A name \in { n \in {"Surfline"} : HasTimeout(n) } : WF_vars(SurfAnswers)

SpecAggFair == InitAggPlain /\ [][NextAgg]_vars /\ FairAgg

\* await fetchRSSFeed(rssFeedUrl, `${teamName} Fan Analysis`, maxItems) of
\* fetchTeamRSSFeed settles; with items, the analysis call is issued.
TeamRSSAnswers(teamName) ==
  LET name == TeamRSSFeed(teamName) IN
  /\ aggPc = "awaiting"
  /\ task[name].st = "pending"
  /\ \E outcome \in Outcomes :
       LET settled == [task EXCEPT ![name] = Done(outcome, fetchRSSFeed(name, outcome))]
       IN  task' = IF NeedsAnalysis(settled, teamName)
                     THEN [settled EXCEPT ![TeamRSSAnalysis(teamName)] = Pending]
                     ELSE settled
  /\ UNCHANGED <<aggPc, invoked, bundle>>
  /\ AggFrame

\* await modelFlash.generateContent(prompt) of fetchTeamRSSFeed settles.
TeamAnalysisAnswers(teamName) ==
  /\ aggPc = "awaiting"
  /\ task[TeamRSSAnalysis(teamName)].st = "pending"
  /\ \E outcome \in AnalysisOutcomes :
       task' = [task EXCEPT ![TeamRSSAnalysis(teamName)] = Done(outcome, Null)]
  /\ UNCHANGED <<aggPc, invoked, bundle>>
  /\ AggFrame

\* The aggregation over the categories that call modelFlash.
NextSummarized ==
  \/ CallAggregation
  \/ \E c \in FeedCategories : \E i \in DOMAIN FeedsOf(c) : FeedAnswers(c, i)
  \/ \E c \in SummarizedCategories : SummarizerAnswers(c)
  \/ \E teamName \in Range(Teams) : SportsGameAnswers(teamName)
  \/ \E teamName \in Range(Teams) : TeamRSSAnswers(teamName)
  \/ \E teamName \in Range(Teams) : TeamAnalysisAnswers(teamName)
  \/ ReturnItems

SpecSummarized == InitSummarized /\ [][NextSummarized]_vars

SpecLeagues == InitLeagues /\ [][NextSummarized]_vars

SpecKeyed == InitKeyed /\ [][NextSummarized]_vars

(***************************************************************************)
(* The CostTracker of one run: index.js hands it the usage of each step    *)
(***************************************************************************)

LedgerFrame == UNCHANGED <<memVars, envVars, runVars, obsVars, aggVars, lookup, artVars, slotVars>>

\* A Gemini usage is emitted: the tracker of everything emitted takes it.
EmitGemini(l, usage) ==
  [l EXCEPT !.emitted = IF usage = Null THEN @ ELSE trackGemini(@, usage),
            !.n = @ + 1]

\* costTracker.trackGemini(usage) is called.
CallTrackGemini(l, usage) ==
  IF usage = Null
    THEN [l EXCEPT !.arg = usage, !.tracked = TypeError]
    ELSE [l EXCEPT !.arg = usage, !.tracked = Returned(GeminiTotalCost(usage)),
                   !.costTracker = trackGemini(@, usage)]

\* if (usage && usage.geminiFlash?.promptTokens > 0) trackGemini(usage)
TrackIfPrompted(l, usage) ==
  IF usage # Null /\ "geminiFlash" \in DOMAIN usage /\ usage.geminiFlash.promptTokens > 0
    THEN CallTrackGemini(l, usage) ELSE l

\* STEP 1: the usage of fetchAdditionalSourcing, tracked when its prompt
\* count is positive.
RecordFetcherUsage ==
  /\ ledger.pc = "fetch"
  /\ \E fetcherUsage \in FlashUsages :
       ledger' = [TrackIfPrompted(EmitGemini(ledger, fetcherUsage), fetcherUsage)
                    EXCEPT !.pc = "articles"]
  /\ LedgerFrame

\* STEP 1.6: with articles enabled, the usage of fetchArticles, tracked when
\* its prompt count is positive.
RecordArticlesUsage ==
  /\ ledger.pc = "articles"
  /\ \/ ledger' = [ledger EXCEPT !.pc = "synthesize"]
     \/ \E usage \in FlashUsages \cup {Null} :
          ledger' = [TrackIfPrompted(EmitGemini(ledger, usage), usage)
                       EXCEPT !.pc = "synthesize"]
  /\ LedgerFrame

\* STEP 2: the usage of synthesizeScript, to trackGemini when it has a
\* Gemini field and to trackClaude otherwise.
RecordSynthesizerUsage ==
  /\ ledger.pc = "synthesize"
  /\ \/ \E synthesizerUsage \in SynthesizerUsages :
          ledger' = [CallTrackGemini(EmitGemini(ledger, synthesizerUsage),
                                     synthesizerUsage)
                       EXCEPT !.pc = "tts"]
     \/ \E synthesizerUsage \in ClaudeUsages :
          LET cost == synthesizerUsage.inputTokens * RATES.claude.input
                        + synthesizerUsage.outputTokens * RATES.claude.output
          IN  ledger' =
                [ledger EXCEPT
                   !.emitted = trackClaude(@, synthesizerUsage.inputTokens,
                                           synthesizerUsage.outputTokens),
                   !.costTracker = trackClaude(@, synthesizerUsage.inputTokens,
                                               synthesizerUsage.outputTokens),
                   !.n = @ + 1, !.arg = synthesizerUsage,
                   !.tracked = Returned(cost), !.pc = "tts"]
  /\ LedgerFrame

\* STEP 3: trackTTS(ttsCharacters, 'wavenet'); a dry run then prints the
\* summary and returns.
RecordTTS ==
  /\ ledger.pc = "tts"
  /\ \E ttsCharacters \in 0..MaxTokens :
       ledger' =
         [ledger EXCEPT
            !.emitted = trackTTS(@, ttsCharacters, "wavenet"),
            !.costTracker = trackTTS(@, ttsCharacters, "wavenet"),
            !.n = @ + 1, !.arg = [characters |-> ttsCharacters],
            !.tracked = Returned(ttsCharacters * RATES.tts.wavenet),
            !.pc = IF ledger.dryRun THEN "summary" ELSE "topics"]
  /\ LedgerFrame

\* STEP 5.5: try { extractKeyTopics; commitEpisodeMemory; if (topicsUsage)
\* trackGemini(topicsUsage) } catch { warn }: the usage of the topics is
\* tracked after the commit, inside the same try; then printSummary.
RecordTopicsUsage ==
  /\ ledger.pc = "topics"
  /\ \E topicsUsage \in FlashUsages \cup {Null}, committed \in BOOLEAN :
       LET emitted == EmitGemini(ledger, topicsUsage) IN
       ledger' = [(IF committed /\ topicsUsage # Null
                     THEN CallTrackGemini(emitted, topicsUsage) ELSE emitted)
                    EXCEPT !.pc = "summary"]
  /\ LedgerFrame

NextLedger ==
  \/ RecordFetcherUsage
  \/ RecordArticlesUsage
  \/ RecordSynthesizerUsage
  \/ RecordTTS
  \/ RecordTopicsUsage

SpecLedger == InitLedger /\ [][NextLedger]_vars

\* The methods of a CostTracker, called with any argument.
TrackGeminiCalled ==
  /\ ledger.pc = "calls"
  /\ ledger.n < MaxRecords
  /\ \E usage \in FlashUsages \cup SynthesizerUsages \cup {<<>>, Null} :
       ledger' = CallTrackGemini(EmitGemini(ledger, usage), usage)
  /\ LedgerFrame

TrackClaudeCalled ==
  /\ ledger.pc = "calls"
  /\ ledger.n < MaxRecords
  /\ \E usage \in ClaudeUsages :
       ledger' =
         [ledger EXCEPT
            !.emitted = trackClaude(@, usage.inputTokens, usage.outputTokens),
            !.costTracker = trackClaude(@, usage.inputTokens, usage.outputTokens),
            !.n = @ + 1, !.arg = usage,
            !.tracked = Returned(usage.inputTokens * RATES.claude.input
                                   + usage.outputTokens * RATES.claude.output)]
  /\ LedgerFrame

TrackTTSCalled ==
  /\ ledger.pc = "calls"
  /\ ledger.n < MaxRecords
  /\ \E characters \in 0..MaxTokens, voiceType \in {"standard", "wavenet"} :
       ledger' =
         [ledger EXCEPT
            !.emitted = trackTTS(@, characters, voiceType),
            !.costTracker = trackTTS(@, characters, voiceType),
            !.n = @ + 1, !.arg = [characters |-> characters],
            !.tracked = Returned(characters * RATES.tts[voiceType])]
  /\ LedgerFrame

NextTracker == TrackGeminiCalled \/ TrackClaudeCalled \/ TrackTTSCalled

SpecTracker == InitTracker /\ [][NextTracker]_vars

(***************************************************************************)
(* The lookups of episodeMemory.js, called once each                       *)
(***************************************************************************)

LookupFrame == UNCHANGED <<memVars, envVars, runVars, obsVars, aggVars, ledger, artVars, slotVars>>

LookupCalled(name, result) ==
  /\ lookup # NoLookup
  /\ lookup.called = "none"
  /\ lookup' = [lookup EXCEPT !.called = name, !.result = result]
  /\ LookupFrame

GetCoveredArticlesCalled ==
  /\ lookup # NoLookup
  /\ LookupCalled("getCoveredArticles",
                  getCoveredArticles(lookup.data, lookup.days, lookup.now))

HasArticleBeenCoveredCalled ==
  /\ lookup # NoLookup
  /\ LookupCalled("hasArticleBeenCovered",
                  [covered |-> hasArticleBeenCovered(lookup.data, lookup.title,
                                                     lookup.days, lookup.now)])

FormatMemoryForPromptCalled ==
  /\ lookup # NoLookup
  /\ LookupCalled("formatMemoryForPrompt",
                  formatMemoryForPrompt(lookup.data, lookup.days, lookup.now))

NextLookup ==
  \/ GetCoveredArticlesCalled
  \/ HasArticleBeenCoveredCalled
  \/ FormatMemoryForPromptCalled

SpecLookup == InitLookup /\ [][NextLookup]_vars

(***************************************************************************)
(* fetchAdditionalSourcing: the callbacks in every completion order        *)
(***************************************************************************)

InitSlots ==
  /\ MemStart(EmptyMemory, 0)
  /\ EnvStart(0, FALSE, FALSE, {})
  /\ RunStart("idle")
  /\ \E c \in SlotContents : contentCfg = c
  /\ season = "none"
  /\ aggPc = "start"
  /\ task = <<>>
  /\ invoked = {}
  /\ bundle = NoBundle
  /\ ledger = NoLedger
  /\ lookup = NoLookup
  /\ ArticlesIdle
  /\ SlotsIdle

SlotFrame ==
  UNCHANGED <<memVars, envVars, runVars, obsVars, contentCfg, season, ledger, lookup,
              artVars>>

\* The synchronous part: every enabled client is called and the promise of
\* its callback is pushed.
PushPromises ==
  /\ aggPc = "start"
  /\ invoked' = InvokedFor(contentCfg, season)
  /\ task' = [name \in SlotCalls(InvokedFor(contentCfg, season), contentCfg) |-> Pending]
  /\ promises' = [client \in InvokedFor(contentCfg, season) |-> "pending"]
  /\ aggPc' = "awaiting"
  /\ UNCHANGED <<bundle, results>>
  /\ SlotFrame

\* The promise of a call settles with the result of its source.
CallSettles(name) ==
  /\ aggPc = "awaiting"
  /\ name \in DOMAIN task
  /\ task[name].st = "pending"
  /\ \E outcome \in Outcomes :
       task' = [task EXCEPT ![name] = Done(outcome, ResultOf(name, outcome, season))]
  /\ UNCHANGED <<aggPc, invoked, bundle, promises, results>>
  /\ SlotFrame

\* .then(res => { results.key = res }) of a client whose promise has settled.
ThenCallback(client) ==
  /\ aggPc = "awaiting"
  /\ client \in DOMAIN promises
  /\ promises[client] = "pending"
  /\ \A name \in Range(CallsOf(client, contentCfg)) : Settled(task, name)
  /\ results' = (SlotOf(client) :> ResolvedWith(client, task, contentCfg)) @@ results
  /\ promises' = [promises EXCEPT ![client] = "resolved"]
  /\ UNCHANGED <<aggPc, task, invoked, bundle>>
  /\ SlotFrame

\* await Promise.all(promises) resolves; items and usage are built from the
\* results object and returned.
ReturnBundle ==
  /\ aggPc = "awaiting"
  /\ \A client \in DOMAIN promises : promises[client] = "resolved"
  /\ bundle' = [items |-> ItemsFrom(results), usage |-> UsageFrom(results)]
  /\ aggPc' = "returned"
  /\ UNCHANGED <<task, invoked, promises, results>>
  /\ SlotFrame

NextSlots ==
  \/ PushPromises
  \/ \E name \in FeedClients \cup Range(Teams) \cup TeamRSSFeeds : CallSettles(name)
  \/ \E client \in FeedClients \cup {"fetchSportsGame", "fetchTeamRSSFeed"} :
       ThenCallback(client)
  \/ ReturnBundle

SpecSlots == InitSlots /\ [][NextSlots]_vars

(***************************************************************************)
(* fetchArticles called once                                               *)
(***************************************************************************)

\* A call of fetchArticles about to be made, with or without GOOGLE_API_KEY.
InitArticles ==
  /\ MemStart(EmptyMemory, 0)
  /\ EnvStart(0, FALSE, FALSE, {})
  /\ RunStart("idle")
  /\ \E key \in BOOLEAN : contentCfg = [NoContent EXCEPT !.apiKey = key]
  /\ season = "none"
  /\ aggPc = "idle"
  /\ task = <<>>
  /\ invoked = {}
  /\ bundle = NoBundle
  /\ ledger = NoLedger
  /\ lookup = NoLookup
  /\ \E c \in ArticlesConfigs, m \in ArticlesMemories, web \in Webs :
       articlesCall = ArticlesCall(c, m, UTCMidnight(ArticlesDay), web)
  /\ journal = NoJournal
  /\ SlotsIdle

FetchArticlesCalled ==
  /\ articlesCall # NoArticlesCall
  /\ ~articlesCall.done
  /\ articlesCall' =
       [articlesCall EXCEPT
          !.done = TRUE,
          !.result = fetchArticles(articlesCall.config, articlesCall.episodeMemory,
                                   articlesCall.now, articlesCall.web)]
  /\ UNCHANGED <<memVars, envVars, runVars, obsVars, aggVars, ledger, lookup, journal, slotVars>>

NextArticles == FetchArticlesCalled

SpecArticles == InitArticles /\ [][NextArticles]_vars

(***************************************************************************)
(* One run a day at most, every read and write succeeding                  *)
(***************************************************************************)

\* The run of the last modelled day.
NumDays == 17

\* The days from one run to the next.
DailyGaps == {1, 2}

\* What the legacy feed answers on every day: it keeps offering the articles
\* it has offered before.
DailyDocuments == {FeedDocument(<<Entry("Foo Bar", "page"), Entry("Baz", "page")>>)}

\* Articles on, from the legacy feed alone, with the default cap.
DailyConfig == ArticlesConfig(TRUE, 0, TRUE, <<>>)

\* const newRecord = { date, summary, keyTopics,
\*                     ...(articleTitles.length > 0 && { articles }) }
RecordOfRun(date, articleTitles) ==
  IF articleTitles # <<>>
    THEN [date |-> date, summary |-> "s1", keyTopics |-> <<>>, articles |-> articleTitles]
    ELSE [date |-> date, summary |-> "s1", keyTopics |-> <<>>]

\* Before the first run: no memory file, nothing recorded.
InitDaily ==
  /\ MemStart(EmptyMemory, 0)
  /\ EnvStart(0, FALSE, TRUE, {})
  /\ RunStart("idle")
  /\ contentCfg = NoContent
  /\ season = "none"
  /\ aggPc = "idle"
  /\ task = <<>>
  /\ invoked = {}
  /\ bundle = NoBundle
  /\ ledger = NoLedger
  /\ lookup = NoLookup
  /\ articlesCall = NoArticlesCall
  /\ journal = [t \in ArticleTitles |-> <<>>]
  /\ SlotsIdle

\* A whole run on the day of the clock: STEP 1.5 reads the memory, STEP 1.6
\* calls fetchArticles over it, STEP 5.5 writes the memory with the new
\* record; then the clock moves on to the day of the next run.
DailyRun ==
  /\ journal # NoJournal
  /\ today <= NumDays
  /\ \E document \in DailyDocuments, gap \in DailyGaps :
       LET got    == getEpisodeMemory(BackendGet(file, "none"))
           web    == [feeds |-> [n \in {"Kill The Newsletter"} |-> document],
                      pages |-> [t \in ArticleTitles |-> "ok"]]
           call   == ArticlesCall(DailyConfig, got.data, UTCMidnight(today), web)
           result == fetchArticles(DailyConfig, got.data, UTCMidnight(today), web)
           titles == TitlesOf(result.items)
           record == RecordOfRun(today, titles)
           body   == commitBody(addEpisodeToMemory(got.data, record), got.sha)
           answer == BackendPut(file, body, "none")
       IN  /\ articlesCall' = [call EXCEPT !.done = TRUE, !.result = result]
           /\ journal' = [t \in ArticleTitles |->
                            IF \E i \in DOMAIN titles : titles[i] = t
                              THEN <<today>> \o journal[t] ELSE journal[t]]
           /\ file' = answer.file
           /\ feed' = feed \cup {today}
           /\ today' = today + gap
           /\ ticks' = ticks + gap
  /\ UNCHANGED <<memVars, failures, config, runVars, obsVars, aggVars, ledger, lookup, slotVars>>

NextDaily == DailyRun

SpecDaily == InitDaily /\ [][NextDaily]_vars

(***************************************************************************)
(* Properties of the rolling window                                        *)
(***************************************************************************)

DatesIn(episodes) == { episodes[i].date : i \in DOMAIN episodes }

DistinctDates(episodes) ==
  \A i, j \in DOMAIN episodes : i # j => episodes[i].date # episodes[j].date

Descending(episodes) ==
  \A i, j \in DOMAIN episodes : i < j => episodes[i].date > episodes[j].date

Upserted == { d \in Dates : lastUpsert[d] > 0 }

\* The (up to) MAX_EPISODES dates whose last upsert is the most recent.
MostRecentlyUpserted ==
  { d \in Upserted :
      Cardinality({ e \in Upserted : lastUpsert[e] > lastUpsert[d] }) < MAX_EPISODES }

\* C1: whatever the input memory and the record, the result of
\* addEpisodeToMemory holds at most MAX_EPISODES = 14 episodes.
C1_BoundedWindow ==
  calls > 0 => Len(memory.episodes) <= MAX_EPISODES

\* An over-long input was cut down to exactly MAX_EPISODES.
C1_Witness ==
  /\ calls > 0
  /\ Len(EpisodesOf(memoryData)) > MAX_EPISODES
  /\ Len(memory.episodes) = MAX_EPISODES

\* C2: from the empty memory, the retained dates are exactly the (up to) 14
\* most recently upserted distinct dates, a repeated upsert of a date counting
\* as its most recent one.
C2_MostRecentRetained ==
  DatesIn(memory.episodes) = MostRecentlyUpserted

\* More than 14 dates were upserted and an older date outlived a later one
\* because it was upserted again.
C2_Witness ==
  /\ Cardinality(Upserted) > MAX_EPISODES
  /\ \E d \in DatesIn(memory.episodes), e \in Upserted \ DatesIn(memory.episodes) :
       d < e

\* C3: addEpisodeToMemory is idempotent: applying it again with the record of
\* the last call gives the same memory, which holds exactly one entry for the
\* record's date.
C3_Idempotent ==
  calls > 0 =>
    /\ addEpisodeToMemory(memory, newRecord) = memory
    /\ Cardinality({ i \in DOMAIN memory.episodes :
                       memory.episodes[i].date = newRecord.date }) = 1

\* The same record was applied twice in a row to a full window, and the
\* second call returned its input.
C3_Witness ==
  /\ calls >= 2
  /\ memoryData = memory
  /\ memory.episodes[1] = newRecord
  /\ Len(memory.episodes) = MAX_EPISODES

\* C4: from the empty memory no two records share a date, and after an upsert
\* the only record for the upserted date is the new one, at the head.
C4_OneRecordPerDate ==
  /\ DistinctDates(memory.episodes)
  /\ calls > 0 =>
       \A i \in DOMAIN memory.episodes :
         memory.episodes[i].date = newRecord.date =>
           i = 1 /\ memory.episodes[i] = newRecord

\* The upserted date was already present with another payload.
C4_Witness ==
  /\ calls > 0
  /\ \E i \in DOMAIN memoryData.episodes :
       /\ memoryData.episodes[i].date = newRecord.date
       /\ memoryData.episodes[i] # newRecord
  /\ memory.episodes[1] = newRecord

\* The case of C5: the input held 14 records of distinct dates, none of them
\* the date of the new record.
FullAndFresh ==
  /\ calls > 0
  /\ Len(memoryData.episodes) = MAX_EPISODES
  /\ DistinctDates(memoryData.episodes)
  /\ newRecord.date \notin DatesIn(memoryData.episodes)

\* C5: upserting a new date into a full window of 14 distinct dates gives 14
\* records: the new one, then the first 13 of the input in their order; only
\* the last record of the input is evicted.
C5_EvictOnlyLast ==
  FullAndFresh =>
    /\ Len(memory.episodes) = MAX_EPISODES
    /\ memory.episodes =
         <<newRecord>> \o SubSeq(memoryData.episodes, 1, MAX_EPISODES - 1)
    /\ DatesIn(memoryData.episodes) \ DatesIn(memory.episodes) =
         { memoryData.episodes[MAX_EPISODES].date }

\* A full window that was not in date order received a new date.
C5_Witness ==
  /\ FullAndFresh
  /\ ~Descending(memoryData.episodes)
  /\ Len(memory.episodes) = MAX_EPISODES

\* C6 as stated: after any sequence of calls from the empty memory the
\* records are in descending order of date.
C6_DescendingByDate ==
  Descending(memory.episodes)

\* Records in descending order of the call that last upserted them.
RecencyOrdered ==
  \A i, j \in DOMAIN memory.episodes :
    i < j => lastUpsert[memory.episodes[i].date] > lastUpsert[memory.episodes[j].date]

\* Later dates were last upserted later: the upserts came in date order.
UpsertedInDateOrder ==
  \A d, e \in Upserted : d < e => lastUpsert[d] < lastUpsert[e]

\* C6 amended: the records are ordered most recently upserted first, which is
\* descending order of date whenever the upserts came in date order.
C6_NewestUpsertFirst ==
  /\ RecencyOrdered
  /\ UpsertedInDateOrder => Descending(memory.episodes)

\* Several records, upserted in date order, one of the calls being a repeat
\* of a date or a jump ahead.
C6_Witness ==
  /\ Len(memory.episodes) >= 3
  /\ UpsertedInDateOrder
  /\ outOfOrder > 0
  /\ Descending(memory.episodes)

(***************************************************************************)
(* Properties of the memory read and write of a run                        *)
(***************************************************************************)

Before(e, i, event) == \E j \in 1..(i - 1) : e[j] = event

WriteFailed(p) == writeResult[p].done /\ Rejected(writeResult[p].status)

\* C7: getEpisodeMemory turns a not-found answer into the successful result
\* (episodes = [], sha = null); on any other error answer it returns nothing
\* and throws to its caller, which logs the warning.
C7_NotFoundIsEmpty ==
  \A p \in Procs :
    /\ readResult[p].answer = "notFound" =>
         /\ ~readResult[p].threw
         /\ readResult[p].data = EmptyMemory
         /\ readResult[p].sha = Null
    /\ readResult[p].answer = "error" =>
         /\ readResult[p].threw
         /\ "could not load episode memory" \in warnings[p]

\* One run was answered not-found and holds the empty memory, while the
\* read of the other run threw.
C7_Witness ==
  \E p, q \in Procs :
    /\ readResult[p].answer = "notFound"
    /\ ~readResult[p].threw
    /\ episodeMemoryData[p] = EmptyMemory
    /\ readResult[q].answer = "error"
    /\ readResult[q].threw

\* C8 as stated: the token a run's write sends is the token its read
\* returned, and the write goes without a token only when the read returned
\* the null token.
C8_TokenFromRead ==
  \A p \in Procs :
    writeRequest[p].sent =>
      /\ ~readResult[p].threw
      /\ IF "sha" \in DOMAIN writeRequest[p].body
           THEN writeRequest[p].body.sha = readResult[p].sha
           ELSE readResult[p].sha = Null

\* C9: within an attempt the memory read is complete before the article
\* deduplication starts, and the deduplication is complete before the memory
\* write is issued.
C9_ReadDedupWrite ==
  \A p \in Procs :
    \A i \in DOMAIN events[p] :
      /\ events[p][i] = "dedup" => Before(events[p], i, "read")
      /\ events[p][i] = "write" =>
           /\ Before(events[p], i, "read")
           /\ config.articlesEnabled => Before(events[p], i, "dedup")

\* A run did all three.
C9_Witness ==
  \E p \in Procs :
    SelectSeq(events[p], LAMBDA e : e \in {"read", "dedup", "write"}) =
      <<"read", "dedup", "write">>

\* C10: when the memory write fails the run goes on to return normally: the
\* failure is logged as a warning, nothing is thrown to runWithRetry, the
\* invocation has written once and not read again, and the published episode
\* stays published.
C10_WriteFailureIsNotFatal ==
  \A p \in Procs :
    WriteFailed(p) =>
      /\ pc[p] \in {"usage", "returned"}
      /\ writes[p] = 1
      /\ pc[p] = "usage" =>
           /\ "failed to update episode memory" \in warnings[p]
           /\ events[p][Len(events[p])] = "write"
           /\ Cardinality({ i \in DOMAIN events[p] : events[p][i] \in {"read", "write"} }) = 2
           /\ dateStr[p] \in feed

\* A run lost the version check (409) to a concurrent run and returned.
C10_Witness ==
  \E p \in Procs :
    /\ writeResult[p].done
    /\ writeResult[p].status = 409
    /\ pc[p] = "returned"

\* The memory read of the current attempt of p threw an error other than
\* not-found.
ReadFailed(p) == readResult[p].threw /\ readResult[p].answer = "error"

\* C11: when the memory read fails with an error other than not-found the
\* run is not aborted: it goes on with the empty memory (episodes = []), the
\* empty digest, and a deduplication that finds no title covered.
C11_ReadFailureIsNotFatal ==
  \A p \in Procs :
    ReadFailed(p) =>
      /\ pc[p] \in {"articles", "synthesize", "tts", "feed", "publish", "topics",
                    "commit", "usage"}
      /\ episodeMemoryData[p] = EmptyMemory
      /\ episodeMemoryForPrompt[p] = EmptyDigest
      /\ \A title \in Titles :
           ~hasArticleBeenCovered(episodeMemoryData[p], title, ArticleWindowDays, UTCMidnight(today))

\* The read of a run failed while the persisted memory had recent history
\* and covered the offered title; the run took the title all the same and
\* reached the memory write.
C11_Witness ==
  \E p \in Procs :
    /\ ReadFailed(p)
    /\ file.exists
    /\ formatMemoryForPrompt(file.content, PromptWindowDays, UTCMidnight(today)) # EmptyDigest
    /\ \E title \in FeedTitles :
         /\ hasArticleBeenCovered(file.content, title, ArticleWindowDays, UTCMidnight(today))
         /\ articlesData[p] = <<title>>
    /\ pc[p] = "usage"

\* Both runs read, and were returned the same version of the memory: the
\* same blob, or not-found twice.
ReadSameVersion(p, q) ==
  /\ readResult[p].answer \in {"ok", "notFound"}
  /\ readResult[q].answer \in {"ok", "notFound"}
  /\ readResult[p].sha = readResult[q].sha

WriteAccepted(p) == writeResult[p].done /\ ~Rejected(writeResult[p].status)

\* The backend's answers to a write whose token is not the current one:
\* 409 for another blob's sha, 422 for no sha where the file exists.
StaleToken(status) == status \in {409, 422}

\* C12: when two runs read the same version of the memory and both write,
\* at most one write is accepted; if one is, the other is rejected (with a
\* stale-token status unless the backend itself failed), the losing run logs
\* the warning and goes on to return, and the file is the winner's write.
C12_AtMostOneWriteWins ==
  \A p, q \in Procs :
    (p # q /\ ReadSameVersion(p, q) /\ writeRequest[p].sent /\ writeRequest[q].sent) =>
      /\ ~(WriteAccepted(p) /\ WriteAccepted(q))
      /\ WriteAccepted(p) =>
           /\ WriteFailed(q)
           /\ StaleToken(writeResult[q].status) \/ writeResult[q].status = 500
           /\ "failed to update episode memory" \in warnings[q]
           /\ pc[q] = "usage"
           /\ file = File(writeRequest[p].body.content)
           /\ file # File(writeRequest[q].body.content)

\* Two runs read the same blob of a full memory, the first write was
\* accepted and the second was answered 409.
C12_Witness ==
  \E p, q \in Procs :
    /\ p # q
    /\ ReadSameVersion(p, q)
    /\ readResult[p].answer = "ok"
    /\ WriteAccepted(p)
    /\ writeResult[q].done
    /\ writeResult[q].status = 409
    /\ file = File(writeRequest[p].body.content)

\* The snapshot a run holds after its read: what the read returned, or the
\* empty memory when the read threw.
SnapshotOf(p) == IF readResult[p].threw THEN EmptyMemory ELSE readResult[p].data

\* C13: every step that writes the memory sends addEpisodeToMemory(S, R), S
\* being the snapshot the same run got from its read (or the empty memory)
\* and R its new record; the file changes only by such a write and, once it
\* exists, is never deleted.
C13_OnlyUpsertAndTrim ==
  [][ /\ file.exists => file'.exists
      /\ \A p \in Procs :
           writes'[p] # writes[p] =>
             /\ writeRequest'[p].sent
             /\ writeRequest'[p].body.content =
                  addEpisodeToMemory(SnapshotOf(p), NewRecordOf(p))
      /\ file' # file =>
           \E p \in Procs :
             /\ writes'[p] # writes[p]
             /\ file' = File(addEpisodeToMemory(SnapshotOf(p), NewRecordOf(p)))
    ]_vars

\* A run read a full memory that another run had just written, and its own
\* write, the upsert into that snapshot, was accepted.
C13_Witness ==
  \E p \in Procs :
    /\ writeRequest[p].sent
    /\ WriteAccepted(p)
    /\ ~readResult[p].threw
    /\ Len(readResult[p].data.episodes) = MAX_EPISODES
    /\ readResult[p].data # History(MAX_EPISODES)
    /\ file = File(addEpisodeToMemory(readResult[p].data, NewRecordOf(p)))
    /\ file.content # readResult[p].data

\* The record at the head of the memory a run has sent.
WrittenRecord(p) == writeRequest[p].body.content.episodes[1]

\* C14: a step issues the memory write only when, earlier in the same
\* attempt, the summary was produced, the episode was published and the key
\* topics were extracted, the written record carrying that summary and those
\* topics; and an attempt that fails has issued no memory write.
C14_WriteAfterPublish ==
  [][ \A p \in Procs :
        /\ writes'[p] # writes[p] =>
             /\ \A e \in {"synthesize", "publish", "topics"} :
                  Before(events'[p], Len(events'[p]), e)
             /\ events'[p][Len(events'[p])] = "write"
             /\ Before(events[p], Len(events[p]), "publish")
             /\ dateStr[p] \in feed
             /\ summary[p] = SummaryOf(p)
             /\ WrittenRecord(p)' = NewRecordOf(p)
        /\ (pc'[p] = "failed" /\ pc[p] # "failed") =>
             /\ ~writeRequest[p].sent
             /\ writes'[p] = writes[p]
             /\ ~Before(events[p], Len(events[p]) + 1, "write")
    ]_vars

\* The attempt of one run failed without having written; the other run
\* published, extracted topics and then wrote its record.
C14_Witness ==
  \E p, q \in Procs :
    /\ pc[p] = "failed"
    /\ writes[p] = 0
    /\ events[q] # <<>>
    /\ events[q][Len(events[q])] = "write"
    /\ WrittenRecord(q).keyTopics # <<>>
    /\ WrittenRecord(q).date \in feed

(***************************************************************************)
(* Properties of the aggregation                                           *)
(***************************************************************************)

Failed(name) == task[name].st = "done" /\ task[name].how = "error"

Succeeded(name) == task[name].st = "done" /\ task[name].how = "ok"

\* The source fetches of a category; the two event clients fetch nothing.
FetchesOf(c) ==
  CASE c \in FeedCategories -> Range(FeedsOf(c))
    [] c = "sports"          -> Range(Teams)
    [] c = "surf"            -> {"Surfline"}
    [] OTHER                 -> {}

\* C15 as stated: a source whose fetch failed has no item in any bucket of
\* the returned bundle, and the sports bucket holds exactly the items of the
\* teams whose fetch succeeded, in the order of the teams.
C15_SourceIsolation ==
  aggPc = "returned" =>
    /\ \A name \in SourceFetches :
         Failed(name) =>
           \A c \in Categories : \A i \in DOMAIN bundle.items[c] : bundle.items[c][i].source # name
    /\ bundle.items["sports"] =
         Flatten([i \in DOMAIN Teams |->
                    IF Succeeded(Teams[i]) THEN task[Teams[i]].out.items ELSE <<>>])

\* Some source of the category came back with data; for an event, its
\* client was called while the event is on.
ProducedItems(c) ==
  CASE c = "olympics" -> "fetchOlympicsUpdates" \in invoked /\ areOlympicsActive(season)
    [] c = "worldcup" -> "fetchWorldCupUpdates" \in invoked /\ isWorldCupActive(season)
    [] OTHER          -> ClientOf(c) \in invoked /\ \E name \in FetchesOf(c) : Succeeded(name)

\* C16 as stated: the returned bundle has every category key, and the bucket
\* of a category that is disabled, or in which no source produced items, is
\* the empty sequence.
C16_BucketTotality ==
  aggPc = "returned" =>
    /\ DOMAIN bundle.items = Categories
    /\ \A c \in Categories : ~ProducedItems(c) => bundle.items[c] = <<>>

\* Every fetch of the category was issued and failed.
AllSourcesFailed(c) ==
  /\ ClientOf(c) \in invoked
  /\ FetchesOf(c) # {}
  /\ \A name \in FetchesOf(c) : Failed(name)

\* C17 as stated: the bucket of a category all of whose sources failed is
\* empty in the returned bundle.
C17_DegradedIsEmpty ==
  aggPc = "returned" =>
    \A c \in Categories : AllSourcesFailed(c) => bundle.items[c] = <<>>

\* C18 as stated: while the Olympics (the World Cup) are not on, their client
\* is not called and their bucket in the returned bundle is empty, whatever
\* the flags of the event.
C18_GatedByPredicate ==
  /\ ~areOlympicsActive(season) =>
       /\ "fetchOlympicsUpdates" \notin invoked
       /\ aggPc = "returned" => bundle.items["olympics"] = <<>>
  /\ ~isWorldCupActive(season) =>
       /\ "fetchWorldCupUpdates" \notin invoked
       /\ aggPc = "returned" => bundle.items["worldcup"] = <<>>

\* C19 as stated: a call of the aggregation that is waiting for its sources
\* eventually returns its bundle, also when a remote end never answers.
C19_HungSourceDegrades ==
  (aggPc = "awaiting") ~> (aggPc = "returned")

\* C20 as stated: no source fetch waits for another fetch to complete
\* before it is issued.
C20_AllLaunchedTogether ==
  \A name \in SourceFetches : task[name].st # "queued"

(***************************************************************************)
(* Properties of the summarizer calls and of the usage total               *)
(***************************************************************************)

\* The categories whose raw items go through modelFlash.generateContent: the
\* two summarized feed categories and the team RSS feeds.
SummarizingCategories == SummarizedCategories \cup {"teamRSS"}

\* The generateContent calls the code makes for such a category.
SummarizerCallsOf(k) ==
  IF k = "teamRSS" THEN TeamRSSAnalyses ELSE {SummaryCall(k)}

\* The fetches of raw items the code makes for such a category.
RawFetchesOf(k) ==
  IF k = "teamRSS" THEN TeamRSSFeeds ELSE Range(FeedsOf(k))

\* The call or fetch has been issued.
Issued(name) == task[name].st \in {"pending", "done"}

\* Some fetch of the category came back with items.
HasRawItems(k) ==
  \E name \in RawFetchesOf(k) : Settled(task, name) /\ task[name].out # <<>>

\* C21 as stated: for each summarizing category at most one summarizer call
\* is ever issued, it is issued only when every raw fetch of the category has
\* settled, and a returned aggregation whose category has raw items has
\* issued exactly one.
C21_OneSummarizerCallPerCategory ==
  \A k \in SummarizingCategories :
    LET issued == { name \in SummarizerCallsOf(k) : Issued(name) } IN
    /\ Cardinality(issued) <= 1
    /\ issued # {} =>
         \A name \in RawFetchesOf(k) : Issued(name) => Settled(task, name)
    /\ aggPc = "returned" /\ HasRawItems(k) => Cardinality(issued) = 1

\* The calls that go to modelFlash.generateContent.
FlashCalls ==
  { SummaryCall(c) : c \in SummarizedCategories } \cup Range(Teams) \cup TeamRSSAnalyses

\* The usage record a call of the aggregation came back with: that of its
\* answer, null when the call was not made (there is no modelFlash, or there
\* was nothing to send), did not settle or failed.
UsageRecordOf(name) ==
  IF name \in FlashCalls /\ modelFlash /\ Settled(task, name) /\ task[name].how # "error"
    THEN Usage(name) ELSE Null

Counters == {"promptTokens", "candidatesTokens"}

\* The sum of one counter over the usage records of a set of calls, null
\* counting as zero.
RECURSIVE SumOfCounter(_, _)
SumOfCounter(names, counter) ==
  IF names = {} THEN 0
  ELSE LET name == CHOOSE n \in names : TRUE IN
       (IF UsageRecordOf(name) = Null THEN 0
        ELSE UsageRecordOf(name).geminiFlash[counter])
         + SumOfCounter(names \ {name}, counter)

C23_LedgerIsTheSum ==
  ledger # NoLedger /\ ledger.pc = "summary" =>
    ledger.costTracker.usage = ledger.emitted.usage

\* C24 as stated: a track call with a null usage raises no error and leaves
\* the usage counters and the cost totals as they were.
C24_NullIsNoOp ==
  [][ledger # NoLedger /\ ledger'.n = ledger.n + 1 /\ ledger'.arg = Null =>
       /\ ledger'.tracked # TypeError
       /\ ledger'.costTracker = ledger.costTracker]_vars

(***************************************************************************)
(* Properties of the lookups                                               *)
(***************************************************************************)

\* The record is inside the look-back at day granularity: its date is on or
\* after the local day of the call minus the number of days.
InsideWindow(ep, days, now) == ep.date >= LocalDay(now) - days

\* The records of the memory that are inside the look-back.
RecordsInside(data, days, now) ==
  SelectSeq(EpisodesOf(data), LAMBDA ep : InsideWindow(ep, days, now))

\* The record lists the title, both lower-cased and trimmed.
Lists(ep, title) ==
  /\ "articles" \in DOMAIN ep
  /\ \E j \in DOMAIN ep.articles : Normalize(ep.articles[j]) = Normalize(title)

\* The age of the oldest record of the memory of the lookup, in local days.
AgeOf(ep, now) == LocalDay(now) - ep.date

\* C25: hasArticleBeenCovered(title, days) is true exactly when a record
\* inside the look-back lists the title, both lower-cased and trimmed; a
\* record 5 days old makes it true with 7 days and false with 3 days.
C25_CoveredIffListedInsideWindow ==
  lookup # NoLookup /\ lookup.called = "hasArticleBeenCovered" =>
    lookup.result.covered =
      (\E i \in DOMAIN EpisodesOf(lookup.data) :
         /\ InsideWindow(EpisodesOf(lookup.data)[i], lookup.days, lookup.now)
         /\ Lists(EpisodesOf(lookup.data)[i], lookup.title))

\* C26: getCoveredArticles(days) returns the articles of exactly the records
\* dated on or after the local day minus days: the record dated that very day
\* is in, the record of the day before is out, at any hour, in any time zone.
C26_WindowAtDayGranularity ==
  lookup # NoLookup /\ lookup.called = "getCoveredArticles" =>
    LET inside == RecordsInside(lookup.data, lookup.days, lookup.now)
    IN  lookup.result =
          Flatten([i \in DOMAIN inside |->
                     IF "articles" \in DOMAIN inside[i] THEN inside[i].articles
                     ELSE <<>>])

\* C27: on the empty memory the digest is the empty string and the covered
\* articles are the empty list; the digest is empty exactly when no record
\* is inside the look-back, and has one line per record inside it otherwise.
C27_DigestOfTheWindow ==
  /\ lookup # NoLookup /\ lookup.called = "formatMemoryForPrompt" =>
       LET inside == RecordsInside(lookup.data, lookup.days, lookup.now)
       IN  /\ (lookup.result = EmptyDigest) = (inside = <<>>)
           /\ Len(lookup.result) = Len(inside)
           /\ \A i \in DOMAIN lookup.result : lookup.result[i].date = inside[i].date
  /\ lookup # NoLookup /\ lookup.called = "getCoveredArticles"
       /\ EpisodesOf(lookup.data) = <<>> => lookup.result = <<>>

(***************************************************************************)
(* Properties of the configuration errors and of the titles                *)
(***************************************************************************)

\* C28: a team of an unknown league is fatal to the aggregation: the call of
\* fetchAdditionalSourcing does not return a bundle, it fails with a
\* configuration error.
C28_UnknownLeagueIsFatal ==
  contentCfg.sports /\ contentCfg.unknownLeagues # {} => aggPc # "returned"

C29_ConfigErrorIsNotRetried ==
  ~config.dryRun /\ config.missing # {} => \A p \in Procs : attempt[p] = 1

(***************************************************************************)
(* Properties of the summarized feed categories                            *)
(***************************************************************************)

\* The items the feeds of a category returned, in the order of the feeds.
RawItems(c) ==
  Flatten([i \in DOMAIN FeedsOf(c) |-> fetchRSSFeed(FeedsOf(c)[i], task[FeedsOf(c)[i]].how)])

\* The summarizer call of the category was made and rejected.
SummaryFailed(c) ==
  task[SummaryCall(c)].st = "done" /\ task[SummaryCall(c)].how = "error"

\* The summarizer call of the category was made and answered.
SummaryAnswered(c) ==
  task[SummaryCall(c)].st = "done" /\ task[SummaryCall(c)].how = "ok"

\* The usage total of the bundle has nothing of the call of the category.
NoUsageOf(c) ==
  \A counter \in Counters :
    bundle.usage.geminiFlash[counter] =
      SumOfCounter(CallNames \ {SummaryCall(c)}, counter)

\* C31: when the summarizer call of real estate or of news fails, or there
\* is no modelFlash, the bucket of the category holds the raw items of its
\* feeds and the category adds no usage, and the aggregation returns; when
\* the call succeeds the bucket holds exactly the one summary item.
C31_FallbackToRawItems ==
  aggPc = "returned" =>
    \A c \in SummarizedCategories :
      ClientOf(c) \in invoked =>
        /\ (~modelFlash \/ SummaryFailed(c)) =>
             bundle.items[c] = RawItems(c) /\ NoUsageOf(c)
        /\ SummaryAnswered(c) =>
             bundle.items[c] = <<Item(SummaryTitle(c), "summary", SummaryCall(c))>>

\* An aggregation returned with the raw items of real estate after its
\* summarizer call failed, and with those of news for want of modelFlash in
\* another run.
C31_Witness ==
  /\ aggPc = "returned"
  /\ \/ /\ SummaryFailed("realEstate")
        /\ Len(bundle.items["realEstate"]) = 2
     \/ /\ ~modelFlash
        /\ "fetchNewsFeeds" \in invoked
        /\ bundle.items["news"] # <<>>

(***************************************************************************)
(* Properties of the articles of a run                                     *)
(***************************************************************************)

\* C32: the record a run writes lists exactly the titles fetchArticles
\* returned in that run, none of them a title that was covered in the memory
\* the run read, and has no articles field when fetchArticles returned none.
C32_ArticlesOfTheRun ==
  \A p \in Procs :
    writeRequest[p].sent =>
      IF articlesData[p] = <<>>
        THEN "articles" \notin DOMAIN WrittenRecord(p)
        ELSE /\ "articles" \in DOMAIN WrittenRecord(p)
             /\ WrittenRecord(p).articles = articlesData[p]
             /\ \A i \in DOMAIN articlesData[p] :
                  ~hasArticleBeenCovered(episodeMemoryData[p], articlesData[p][i],
                                         ArticleWindowDays, UTCMidnight(today))

\* One run wrote a record with the article it analysed, on a history of
\* earlier episodes, and the other wrote a record without articles.
C32_Witness ==
  \E p, q \in Procs :
    /\ writeRequest[p].sent /\ writeRequest[q].sent
    /\ "articles" \in DOMAIN WrittenRecord(p)
    /\ WrittenRecord(p).articles = <<"Foo Bar">>
    /\ Len(writeRequest[p].body.content.episodes) > 1
    /\ "articles" \notin DOMAIN WrittenRecord(q)

(***************************************************************************)
(* Properties of a replacing upsert                                        *)
(***************************************************************************)

\* The last call replaced: its input had pairwise distinct dates, that of the
\* new record among them.
Replaced ==
  /\ calls > 0
  /\ DistinctDates(EpisodesOf(memoryData))
  /\ newRecord.date \in DatesIn(EpisodesOf(memoryData))

\* The place of the record of a date in a sequence of records.
PlaceOf(episodes, d) == CHOOSE i \in DOMAIN episodes : episodes[i].date = d

\* The new record is first, and the records after it are records of the
\* input, in the order they have there.
HeadThenInputOrder ==
  /\ memory.episodes[1] = newRecord
  /\ \A i \in 2..Len(memory.episodes) :
       /\ \E k \in DOMAIN EpisodesOf(memoryData) :
            EpisodesOf(memoryData)[k] = memory.episodes[i]
       /\ \A j \in 2..Len(memory.episodes) :
            i < j => PlaceOf(EpisodesOf(memoryData), memory.episodes[i].date)
                       < PlaceOf(EpisodesOf(memoryData), memory.episodes[j].date)

C34_AtMostOneWriteAttempt ==
  \A p \in Procs :
    /\ writes[p] <= 1
    /\ writes[p] = 1 => pc[p] \in {"usage", "returned"}

\* An invocation returned from its second attempt, whose memory write the
\* backend rejected.
C34_Witness ==
  \E p \in Procs :
    /\ attempt[p] = 2
    /\ writes[p] = 1
    /\ writeResult[p].done
    /\ Rejected(writeResult[p].status)
    /\ pc[p] = "returned"

\* C35: in a dry run nothing is written to gh-pages: no invocation publishes
\* or sends a memory write, and the memory file (content and sha) and the
\* feed are those the run started with.
C35_DryRunWritesNothing ==
  config.dryRun =>
    /\ \A p \in Procs :
         /\ writes[p] = 0
         /\ ~writeRequest[p].sent
         /\ \A i \in DOMAIN events[p] : events[p][i] \notin {"publish", "write"}
    /\ \E h \in HistoryLengths :
         /\ file = IF h = 0 THEN NoFile ELSE File(History(h))
         /\ feed = 1..h

\* A dry run over an existing history returned after reading the memory and
\* producing the script.
C35_Witness ==
  /\ config.dryRun
  /\ file # NoFile
  /\ \E p \in Procs :
       /\ pc[p] = "returned"
       /\ reads[p] = 1
       /\ attempt[p] = 2

\* C36: the write of an attempt whose memory read threw carries no sha and a
\* memory holding only the attempt's new record, and the backend accepts it
\* only as the creation of a file that did not exist (201): over an existing
\* memory file it is rejected, so the persisted episodes are never replaced by
\* the one-record memory.
C36_FailedReadNeverShrinks ==
  \A p \in Procs :
    (readResult[p].threw /\ writeRequest[p].sent) =>
      /\ "sha" \notin DOMAIN writeRequest[p].body
      /\ writeRequest[p].body.content = [episodes |-> <<NewRecordOf(p)>>]
      /\ writeResult[p].done
      /\ ~Rejected(writeResult[p].status) => writeResult[p].status = 201
      /\ (file.exists /\ Len(file.content.episodes) > 1) =>
           file # File(writeRequest[p].body.content)

\* A run whose read answered an error sent its write over the existing history
\* and got 422; the history is still the one of the start.
C36_Witness ==
  \E p \in Procs :
    /\ readResult[p].threw
    /\ writeRequest[p].sent
    /\ writeResult[p].status = 422
    /\ \E h \in HistoryLengths : h > 1 /\ file = File(History(h))

(***************************************************************************)
(* Properties of the article deduplication                                 *)
(***************************************************************************)

\* C37: over runs on different days whose reads and writes all succeed, a
\* title listed by the record of one run is not listed again by the record of
\* a later run dated within 30 days of it.
C37_NoRepeatWithinWindow ==
  journal # NoJournal =>
    \A t \in ArticleTitles :
      \A i \in DOMAIN journal[t] :
        \A k \in DOMAIN journal[t] :
          i < k => journal[t][i] - journal[t][k] > ArticleWindowDays

\* The entries of a feed document that fetchArticles may take: with a title,
\* with a link to a page, and not reported as covered.
Eligible(entries, episodeMemory, now) ==
  { i \in DOMAIN entries :
      /\ entries[i].title # ""
      /\ entries[i].link = "page"
      /\ ~hasArticleBeenCovered(episodeMemory, entries[i].title,
                                ArticleWindowDays, now) }

\* The slots the feed sources fill before the global cap: for each source
\* whose feed answered, as many as it has eligible entries, up to its cap.
RECURSIVE SlotsOf(_, _, _, _)
SlotsOf(sources, web, episodeMemory, now) ==
  IF sources = <<>> THEN 0
  ELSE LET response == web.feeds[Head(sources).name]
           here == IF response.ok
                     THEN Min(Head(sources).maxItems,
                              Cardinality(Eligible(response.entries, episodeMemory, now)))
                     ELSE 0
       IN  here + SlotsOf(Tail(sources), web, episodeMemory, now)

AllPagesOk(web) == \A t \in ArticleTitles : web.pages[t] = "ok"

\* C39: a call of fetchArticles returns at most maxPerEpisode articles (2 when
\* not set), none of them reported as covered in the last 30 days of the
\* memory it was given; and covered entries take no slot: when the summarizer
\* exists and every page answers, the number returned is the number of
\* eligible entries the sources hold within their caps, up to maxPerEpisode.
C39_CappedAndUncovered ==
  (articlesCall # NoArticlesCall /\ articlesCall.done) =>
    LET c     == articlesCall
        items == c.result.items
        cap   == maxPerEpisodeOf(c.config)
        slots == SlotsOf(feedSourcesOf(c.config), c.web, c.episodeMemory, c.now)
    IN  /\ Len(items) <= cap
        /\ \A i \in DOMAIN items :
             ~hasArticleBeenCovered(c.episodeMemory, items[i].title,
                                    ArticleWindowDays, c.now)
        /\ Len(items) <= slots
        /\ (c.config.enabled /\ modelFlash /\ AllPagesOk(c.web)) =>
             Len(items) = Min(cap, slots)

\* A feed whose first entry is covered and whose cap is 1 still gave its
\* second entry, and the global cap cut what the two sources offered.
C39_Witness ==
  /\ articlesCall # NoArticlesCall
  /\ articlesCall.done
  /\ articlesCall.config.maxPerEpisode = 0
  /\ articlesCall.config.feeds # <<>>
  /\ articlesCall.config.feeds[1].maxItems = <<1>>
  /\ articlesCall.config.killTheNewsletterFeedUrl
  /\ articlesCall.web.feeds["blog"].ok
  /\ Len(articlesCall.web.feeds["blog"].entries) = 3
  /\ hasArticleBeenCovered(articlesCall.episodeMemory, "Foo Bar",
                           ArticleWindowDays, articlesCall.now)
  /\ TitlesOf(articlesCall.result.items) = <<"Baz", "Qux">>

(***************************************************************************)
(* Properties of the completion callbacks                                  *)
(***************************************************************************)

\* The result of the call a category was fetched with, if it was fetched.
SourceResult(name) == IF name \in DOMAIN task THEN <<task[name].out>> ELSE <<>>

ItemsOfAll(found) == Flatten([i \in DOMAIN found |-> found[i].items])

\* The results of the team calls, in the order of teams.
TeamResults(names) ==
  Flatten([i \in DOMAIN names |-> SourceResult(names[i])])

\* The bundle as a function of the per-source results alone, every bucket in
\* the order of the configuration.
BundleOfSources ==
  LET games == TeamResults(Teams)
      fans  == TeamResults([i \in DOMAIN Teams |-> TeamRSSFeed(Teams[i])])
  IN  [items |->
         [c \in Categories |->
            CASE c \in FeedCategories -> ItemsOfAll(SourceResult(ClientOf(c)))
              [] c = "sports" -> ItemsOfAll(games) \o ItemsOfAll(fans)
              [] c = "surf" ->
                   LET surf == SourceResult(ClientOf(c))
                   IN  [i \in DOMAIN surf |->
                          Item("Surf Conditions", surf[i].summary, "Surfline")]
              [] OTHER -> <<>>],
       usage |->
         CombineUsage(SourceResult("fetchRealEstateNews") \o games \o fans
                        \o SourceResult("fetchNewsFeeds"),
                      ZeroUsage)]

Ended(p) == pc[p] \in {"returned", "exit1"}

====
